---- MODULE Spec2Model ----
(***************************************************************************)
(* Mo Commander: the undo-capable file-operation engine.                   *)
(*                                                                         *)
(* UndoManager (src/src/main.py 44-177), FileOperations                    *)
(* (src/src/core/file_ops.py) and the MoCommander handlers that call them  *)
(* (src/src/main.py 820-1068), over an abstract filesystem.                *)
(*                                                                         *)
(* Filesystem abstraction.  Two user directories "L" and "R" (the          *)
(* directories shown by the left and the right panel) hold entries named   *)
(* after Names; the backup directory "B" (tempdir/mocommander_undo) holds  *)
(* entries named "<k>_<name>".  An entry is absent, a file with some data, *)
(* or a directory holding files (kids).  pathlib / shutil calls follow     *)
(* their POSIX behaviour.  A call whose result would need a deeper tree    *)
(* than that is left out (Representable).  Every primitive call may also   *)
(* be refused by the operating system (permission denied, disk full): the  *)
(* io arguments of the operators below say so.  A refused call changes     *)
(* nothing and raises OSError.                                             *)
(***************************************************************************)
EXTENDS Integers, Sequences, FiniteSets, TLC

\* UndoManager.max_history (50 in the source), scaled down.
MaxHistory == 2
\* Number of handlers that change the filesystem or the history in one
\* behaviour: with OS refusals, without them (with and without the ghost
\* log), and in the delete flows; number of FileOperations calls when the
\* methods are called on their own; number of handlers when only
\* directories are made, items deleted and actions undone; number of
\* handlers between which the manager is queried; number of handlers when
\* action_copy and action_move are given selections; number of handlers
\* around the batch delete flow when every dialog gets an answer; number of
\* handlers of a round trip, max_history operations and their undos; number
\* of record_* calls when the methods are called on their own; number of
\* action_copy runs between the steps of the active panel.
MaxOps == 3
MaxOpsNoFault == 4
MaxOpsDeep == 5
MaxOpsFlow == 2
MaxOpsFileOps == 2
MaxOpsDelete == 6
MaxOpsQueries == 3
MaxOpsBatch == 2
MaxOpsDeleteFlow == 2
MaxOpsRoundTrip == 4
MaxOpsRecord == 3
MaxOpsPanel == 2

Names == {"a", "b"}
Data == {1, 2}
UserDirs == {"L", "R"}

\* ---------------------------------------------------------------- paths

UserPath(d, n) == [area |-> d, idx |-> 0, name |-> n]
UserPaths == {UserPath(d, n) : d \in UserDirs, n \in Names}
\* backup_dir / f"{k}_{n}"
BackupPath(k, n) == [area |-> "B", idx |-> k, name |-> n]
BackupPaths == {BackupPath(k, n) : k \in 0..MaxHistory, n \in Names}
\* backup_dir itself
backup_dir == [area |-> "B", idx |-> 0, name |-> "."]
\* Optional[Path] = None
NoPath == [area |-> "-", idx |-> 0, name |-> "-"]
Paths == UserPaths \cup BackupPaths \cup {backup_dir}

OtherDir(d) == IF d = "L" THEN "R" ELSE "L"
IsBackup(p) == p.area = "B" /\ p # backup_dir

\* ---------------------------------------------------------------- nodes

NoKids == [n \in Names |-> 0]
Absent == [kind |-> "none", data |-> 0, kids |-> NoKids]
File(d) == [kind |-> "file", data |-> d, kids |-> NoKids]
Dir(k) == [kind |-> "dir", data |-> 0, kids |-> k]

exists(f, p) == f[p].kind # "none"
is_dir(f, p) == f[p].kind = "dir"
IsEmptyDir(f, p) == is_dir(f, p) /\ f[p].kids = NoKids
\* The directory a path lives in exists (the user directories always do).
ParentExists(f, p) == IsBackup(p) => is_dir(f, backup_dir)

\* Result of a primitive call: ok = FALSE when it raised.
Raise(f) == [ok |-> FALSE, fs |-> f]
Done(f) == [ok |-> TRUE, fs |-> f]

\* shutil.copy2(src, dst) for a src that is not a directory.
copy2(f, src, dst, io) ==
    IF ~io \/ ~exists(f, src) \/ is_dir(f, src) \/ src = dst \/ ~ParentExists(f, dst)
    THEN Raise(f)
    ELSE IF is_dir(f, dst)
         THEN Done([f EXCEPT ![dst].kids[src.name] = f[src].data])
         ELSE Done([f EXCEPT ![dst] = File(f[src].data)])

\* shutil.copytree(src, dst, dirs_exist_ok=merge); makedirs creates the
\* missing parents of dst.
copytree(f, src, dst, merge, io) ==
    IF ~io \/ ~is_dir(f, src) \/ src = dst THEN Raise(f)
    ELSE IF exists(f, dst) /\ ~(merge /\ is_dir(f, dst)) THEN Raise(f)
    ELSE LET old == IF is_dir(f, dst) THEN f[dst].kids ELSE NoKids
             new == [n \in Names |-> IF f[src].kids[n] # 0 THEN f[src].kids[n] ELSE old[n]]
             g == IF IsBackup(dst) THEN [f EXCEPT ![backup_dir] = Dir(NoKids)] ELSE f
         IN Done([g EXCEPT ![dst] = Dir(new)])

\* shutil.rmtree(p) for an existing directory p.
rmtree(f, p, io) ==
    IF ~io \/ ~is_dir(f, p) THEN Raise(f)
    ELSE IF p = backup_dir
         THEN Done([q \in Paths |-> IF q.area = "B" THEN Absent ELSE f[q]])
         ELSE Done([f EXCEPT ![p] = Absent])

\* Path.unlink()
unlink(f, p, io) ==
    IF ~io \/ f[p].kind # "file" THEN Raise(f) ELSE Done([f EXCEPT ![p] = Absent])

\* Path.rmdir(): only an empty directory.
rmdir(f, p, io) ==
    IF ~io \/ ~IsEmptyDir(f, p) THEN Raise(f) ELSE Done([f EXCEPT ![p] = Absent])

\* Path.mkdir(parents=True, exist_ok=True)
mkdir(f, p, io) ==
    IF ~io \/ f[p].kind = "file" THEN Raise(f)
    ELSE IF is_dir(f, p) THEN Done(f) ELSE Done([f EXCEPT ![p] = Dir(NoKids)])

\* Path.rename(dst) = os.rename (POSIX): replaces a file by a file and an
\* empty directory by a directory.
rename(f, src, dst, io) ==
    IF ~io \/ ~exists(f, src) THEN Raise(f)
    ELSE IF src = dst THEN Done(f)
    ELSE IF is_dir(f, src) /\ exists(f, dst) /\ ~IsEmptyDir(f, dst) THEN Raise(f)
    ELSE IF ~is_dir(f, src) /\ is_dir(f, dst) THEN Raise(f)
    ELSE Done([f EXCEPT ![dst] = f[src], ![src] = Absent])

\* shutil.move(src, dst): into dst when dst is a directory, else os.rename,
\* with the copy-and-delete fallback when os.rename raises.
move(f, src, dst, io) ==
    IF ~io \/ ~exists(f, src) THEN Raise(f)
    ELSE IF src = dst THEN Done(f)
    ELSE IF is_dir(f, dst)
         THEN IF f[dst].kids[src.name] # 0 \/ is_dir(f, src) THEN Raise(f)
              ELSE Done([f EXCEPT ![dst].kids[src.name] = f[src].data, ![src] = Absent])
         ELSE IF is_dir(f, src) /\ exists(f, dst) THEN Raise(f)
              ELSE Done([f EXCEPT ![dst] = f[src], ![src] = Absent])

\* A directory moved into an existing directory, or a backup file copied
\* into a user directory, would need a tree deeper than the model's.
MoveRepresentable(f, src, dst) ==
    ~(is_dir(f, src) /\ is_dir(f, dst) /\ src # dst /\ f[dst].kids[src.name] = 0)
Copy2Representable(f, src, dst) ==
    ~(IsBackup(src) /\ f[src].kind = "file" /\ is_dir(f, dst))

\* ---------------------------------------------------------- UndoManager

ActionTypes == {"copy", "move", "delete", "mkdir", "rename"}

\* @dataclass UndoAction
UndoAction(t, src, dst, bkp) ==
    [action_type |-> t, source |-> src, destination |-> dst, backup_path |-> bkp]

\* Which primitive calls the OS permits while one handler runs.  io1: the
\* first filesystem change of an UndoManager method (the backup copy of
\* record_delete, the reversal of undo); io2: its second (the backup removal
\* of _add_action and of undo); io3: the FileOperations call.  At most one
\* kind of call is refused at a time.
AllOk == [io1 |-> TRUE, io2 |-> TRUE, io3 |-> TRUE]
IOs == {AllOk, [AllOk EXCEPT !.io1 = FALSE], [AllOk EXCEPT !.io2 = FALSE],
        [AllOk EXCEPT !.io3 = FALSE]}

\* _add_action without the bound: the entry is appended and nothing is
\* evicted.
_add_action_unbounded(h, f, action, io) ==
    [history |-> Append(h, action), fs |-> f, raised |-> FALSE]

\* _add_action with pop() for pop(0): past the bound the entry just appended
\* is the one dropped.
_add_action_pop_last(h, f, action, io) ==
    LET h1 == Append(h, action) IN
    IF Len(h1) > MaxHistory
    THEN [history |-> h, fs |-> f, raised |-> FALSE]
    ELSE [history |-> h1, fs |-> f, raised |-> FALSE]

\* UndoManager._add_action: append, and past max_history evict the oldest
\* entry and remove its backup.  raised: the backup removal raised, after
\* the entry was appended and the oldest one popped.
_add_action(h, f, action, io) ==
    LET h1 == Append(h, action) IN
    IF Len(h1) > MaxHistory
    THEN LET oldest == Head(h1)
             h2 == Tail(h1)
         IN IF oldest.backup_path # NoPath /\ exists(f, oldest.backup_path)
            THEN LET r == IF is_dir(f, oldest.backup_path)
                          THEN rmtree(f, oldest.backup_path, io)
                          ELSE unlink(f, oldest.backup_path, io)
                 IN [history |-> h2, fs |-> r.fs, raised |-> ~r.ok]
            ELSE [history |-> h2, fs |-> f, raised |-> FALSE]
    ELSE [history |-> h1, fs |-> f, raised |-> FALSE]

\* UndoManager.record_copy / record_move / record_mkdir / record_rename
record_copy(h, f, src, dst, io) ==
    _add_action(h, f, UndoAction("copy", src, dst, NoPath), io.io2)
record_move(h, f, src, dst, io) ==
    _add_action(h, f, UndoAction("move", src, dst, NoPath), io.io2)
record_mkdir(h, f, path, io) ==
    _add_action(h, f, UndoAction("mkdir", path, NoPath, NoPath), io.io2)
record_rename(h, f, old, new, io) ==
    _add_action(h, f, UndoAction("rename", old, new, NoPath), io.io2)

\* backup_dir / path.name: the backup named without len(self.history)
backup_name_flat(h, path) == BackupPath(0, path.name)

\* backup_dir / f"{len(self.history)}_{path.name}"
backup_name(h, path) == BackupPath(Len(h), path.name)

\* record_delete that moves the item into the backup storage instead of
\* copying it
record_delete_moving(h, f, path, io) ==
    LET backup_path == backup_name(h, path)
        c == IF is_dir(f, path)
             THEN copytree(f, path, backup_path, FALSE, io.io1)
             ELSE copy2(f, path, backup_path, io.io1)
    IN IF ~c.ok
       THEN [history |-> h, fs |-> f, ret |-> FALSE, added |-> FALSE]
       ELSE LET a == _add_action(h, [c.fs EXCEPT ![path] = Absent],
                                 UndoAction("delete", path, NoPath, backup_path), io.io2)
            IN [history |-> a.history, fs |-> a.fs, ret |-> ~a.raised, added |-> TRUE]

\* UndoManager.record_delete: back the item up, then record.  Any exception,
\* the one of _add_action's backup removal included, returns False.  added:
\* _add_action was called.
record_delete(h, f, path, io) ==
    LET backup_path == backup_name(h, path)
        c == IF is_dir(f, path)
             THEN copytree(f, path, backup_path, FALSE, io.io1)
             ELSE copy2(f, path, backup_path, io.io1)
    IN IF ~c.ok
       THEN [history |-> h, fs |-> f, ret |-> FALSE, added |-> FALSE]
       ELSE LET a == _add_action(h, c.fs, UndoAction("delete", path, NoPath, backup_path), io.io2)
            IN [history |-> a.history, fs |-> a.fs, ret |-> ~a.raised, added |-> TRUE]

\* can_undo with > 1 for > 0
can_undo_several(h) == Len(h) > 1

\* UndoManager.can_undo
can_undo(h) == Len(h) > 0

\* The result of undo(): (success, message), the message by its kind, with
\* the history and the filesystem it leaves.
UndoResult(h, f, ok, msg) == [history |-> h, fs |-> f, ok |-> ok, msg |-> msg]

\* No action: what undo() reversed when the history was empty.
NoAction == UndoAction("none", NoPath, NoPath, NoPath)

\* undo() on a popped COPY action that removes the source instead of the copy
undo_copy_source(h, f, action, io) ==
    IF exists(f, action.source)
    THEN LET r == IF is_dir(f, action.source)
                  THEN rmtree(f, action.source, io.io1)
                  ELSE unlink(f, action.source, io.io1)
         IN IF r.ok THEN UndoResult(h, r.fs, TRUE, "Undid copy")
                    ELSE UndoResult(h, r.fs, FALSE, "Undo failed")
    ELSE UndoResult(h, f, TRUE, "Undid copy")

\* undo() on a popped COPY action that fails, as the MOVE branch does, when
\* the destination is gone
undo_copy_strict(h, f, action, io) ==
    IF exists(f, action.destination)
    THEN LET r == IF is_dir(f, action.destination)
                  THEN rmtree(f, action.destination, io.io1)
                  ELSE unlink(f, action.destination, io.io1)
         IN IF r.ok THEN UndoResult(h, r.fs, TRUE, "Undid copy")
                    ELSE UndoResult(h, r.fs, FALSE, "Undo failed")
    ELSE UndoResult(h, f, FALSE, "no longer exists")

\* undo() on a popped COPY action
undo_copy(h, f, action, io) ==
    IF exists(f, action.destination)
    THEN LET r == IF is_dir(f, action.destination)
                  THEN rmtree(f, action.destination, io.io1)
                  ELSE unlink(f, action.destination, io.io1)
         IN IF r.ok THEN UndoResult(h, r.fs, TRUE, "Undid copy")
                    ELSE UndoResult(h, r.fs, FALSE, "Undo failed")
    ELSE UndoResult(h, f, TRUE, "Undid copy")

\* undo() on a popped MOVE action that takes a missing destination for an
\* undone move
undo_move_lenient(h, f, action, io) ==
    IF exists(f, action.destination)
    THEN LET r == move(f, action.destination, action.source, io.io1)
         IN IF r.ok THEN UndoResult(h, r.fs, TRUE, "Undid move")
                    ELSE UndoResult(h, r.fs, FALSE, "Undo failed")
    ELSE UndoResult(h, f, TRUE, "Undid move")

\* undo() on a popped MOVE action
undo_move(h, f, action, io) ==
    IF exists(f, action.destination)
    THEN LET r == move(f, action.destination, action.source, io.io1)
         IN IF r.ok THEN UndoResult(h, r.fs, TRUE, "Undid move")
                    ELSE UndoResult(h, r.fs, FALSE, "Undo failed")
    ELSE UndoResult(h, f, FALSE, "no longer exists")

\* undo() on a popped DELETE action that takes a missing backup for a
\* restored item
undo_delete_lenient(h, f, action, io) ==
    IF action.backup_path # NoPath /\ exists(f, action.backup_path)
    THEN LET isd == is_dir(f, action.backup_path)
             c == IF isd THEN copytree(f, action.backup_path, action.source, FALSE, io.io1)
                         ELSE copy2(f, action.backup_path, action.source, io.io1)
         IN IF ~c.ok THEN UndoResult(h, f, FALSE, "Undo failed")
            ELSE LET r == IF isd THEN rmtree(c.fs, action.backup_path, io.io2)
                                 ELSE unlink(c.fs, action.backup_path, io.io2)
                 IN IF r.ok THEN UndoResult(h, r.fs, TRUE, "Undid delete")
                            ELSE UndoResult(h, r.fs, FALSE, "Undo failed")
    ELSE UndoResult(h, f, TRUE, "Undid delete")

\* undo() on a popped DELETE action that removes the backup whether or not
\* the copy back went through
undo_delete_unguarded(h, f, action, io) ==
    IF action.backup_path # NoPath /\ exists(f, action.backup_path)
    THEN LET isd == is_dir(f, action.backup_path)
             c == IF isd THEN copytree(f, action.backup_path, action.source, FALSE, io.io1)
                         ELSE copy2(f, action.backup_path, action.source, io.io1)
             r == IF isd THEN rmtree(c.fs, action.backup_path, io.io2)
                         ELSE unlink(c.fs, action.backup_path, io.io2)
         IN IF c.ok /\ r.ok THEN UndoResult(h, r.fs, TRUE, "Undid delete")
                            ELSE UndoResult(h, r.fs, FALSE, "Undo failed")
    ELSE UndoResult(h, f, FALSE, "backup not found")

\* undo() on a popped DELETE action: copy the backup back, then remove it.
undo_delete(h, f, action, io) ==
    IF action.backup_path # NoPath /\ exists(f, action.backup_path)
    THEN LET isd == is_dir(f, action.backup_path)
             c == IF isd THEN copytree(f, action.backup_path, action.source, FALSE, io.io1)
                         ELSE copy2(f, action.backup_path, action.source, io.io1)
         IN IF ~c.ok THEN UndoResult(h, f, FALSE, "Undo failed")
            ELSE LET r == IF isd THEN rmtree(c.fs, action.backup_path, io.io2)
                                 ELSE unlink(c.fs, action.backup_path, io.io2)
                 IN IF r.ok THEN UndoResult(h, r.fs, TRUE, "Undid delete")
                            ELSE UndoResult(h, r.fs, FALSE, "Undo failed")
    ELSE UndoResult(h, f, FALSE, "backup not found")

\* undo() on a popped MKDIR action with shutil.rmtree for rmdir: the
\* directory is removed with what it holds.
undo_mkdir_rmtree(h, f, action, io) ==
    IF exists(f, action.source) /\ is_dir(f, action.source)
    THEN LET r == rmtree(f, action.source, io.io1)
         IN IF r.ok THEN UndoResult(h, r.fs, TRUE, "Undid mkdir")
                    ELSE UndoResult(h, r.fs, FALSE, "not empty")
    ELSE UndoResult(h, f, FALSE, "no longer exists")

\* undo() on a popped MKDIR action: rmdir, only if empty.
undo_mkdir(h, f, action, io) ==
    IF exists(f, action.source) /\ is_dir(f, action.source)
    THEN LET r == rmdir(f, action.source, io.io1)
         IN IF r.ok THEN UndoResult(h, r.fs, TRUE, "Undid mkdir")
                    ELSE UndoResult(h, r.fs, FALSE, "not empty")
    ELSE UndoResult(h, f, FALSE, "no longer exists")

\* undo() on a popped RENAME action
undo_rename(h, f, action, io) ==
    IF exists(f, action.destination)
    THEN LET r == rename(f, action.destination, action.source, io.io1)
         IN IF r.ok THEN UndoResult(h, r.fs, TRUE, "Undid rename")
                    ELSE UndoResult(h, r.fs, FALSE, "Undo failed")
    ELSE UndoResult(h, f, FALSE, "no longer exists")

\* history.pop(): the history without its last entry
pop(h) == SubSeq(h, 1, Len(h) - 1)

\* undo()'s try block: the reversal of the popped action, by its type.
reverse(rest, f, action, io) ==
    CASE action.action_type = "copy" -> undo_copy(rest, f, action, io)
      [] action.action_type = "move" -> undo_move(rest, f, action, io)
      [] action.action_type = "delete" -> undo_delete(rest, f, action, io)
      [] action.action_type = "mkdir" -> undo_mkdir(rest, f, action, io)
      [] action.action_type = "rename" -> undo_rename(rest, f, action, io)
      [] OTHER -> UndoResult(rest, f, FALSE, "Unknown action type")

\* undo() with pop(0) for pop(): the oldest action is the one reversed.
undo_fifo(h, f, io) ==
    IF h = <<>> THEN [r |-> UndoResult(h, f, FALSE, "Nothing to undo"), action |-> NoAction]
    ELSE [action |-> Head(h), r |-> reverse(Tail(h), f, Head(h), io)]

\* undo() that puts the action back when its reversal failed.
undo_restoring(h, f, io) ==
    IF h = <<>> THEN [r |-> UndoResult(h, f, FALSE, "Nothing to undo"), action |-> NoAction]
    ELSE LET action == h[Len(h)]
             r == reverse(pop(h), f, action, io)
         IN [action |-> action, r |-> IF r.ok THEN r ELSE [r EXCEPT !.history = h]]

\* undo() with history[-1] for history.pop(): the action is reversed and
\* stays in the history.
undo_peek(h, f, io) ==
    IF h = <<>> THEN [r |-> UndoResult(h, f, FALSE, "Nothing to undo"), action |-> NoAction]
    ELSE [action |-> h[Len(h)], r |-> reverse(h, f, h[Len(h)], io)]

\* UndoManager.undo: (success, message), with the action it popped.
undo(h, f, io) ==
    IF h = <<>> THEN [r |-> UndoResult(h, f, FALSE, "Nothing to undo"), action |-> NoAction]
    ELSE LET action == h[Len(h)]
             rest == pop(h)
         IN [action |-> action, r |-> reverse(rest, f, action, io)]

\* The calls undo() makes are within the model's tree depth.
UndoRepresentable(h, f) ==
    h # <<>> =>
        LET action == h[Len(h)] IN
        /\ action.action_type = "move" /\ exists(f, action.destination)
              => MoveRepresentable(f, action.destination, action.source)
        /\ action.action_type = "delete" /\ action.backup_path # NoPath
              => Copy2Representable(f, action.backup_path, action.source)

\* f"Undo {verb} of {name}" ("Undo mkdir {name}" for MKDIR)
Description(verb, of, name) == "Undo " \o verb \o of \o name

\* get_last_action_description that describes history[0]
get_last_action_description_oldest(h) ==
    [history |-> h,
     ret |-> IF h = <<>> THEN "Nothing to undo"
             ELSE LET action == h[1]
                  IN CASE action.action_type = "copy" ->
                             Description("copy", " of ", action.destination.name)
                       [] action.action_type = "move" ->
                             Description("move", " of ", action.source.name)
                       [] action.action_type = "delete" ->
                             Description("delete", " of ", action.source.name)
                       [] action.action_type = "mkdir" ->
                             Description("mkdir", " ", action.source.name)
                       [] action.action_type = "rename" ->
                             Description("rename", " of ", action.source.name)
                       [] OTHER -> "Unknown action"]

\* UndoManager.get_last_action_description: the history it leaves and the
\* string it returns.
get_last_action_description(h) ==
    [history |-> h,
     ret |-> IF h = <<>> THEN "Nothing to undo"
             ELSE LET action == h[Len(h)]
                  IN CASE action.action_type = "copy" ->
                             Description("copy", " of ", action.destination.name)
                       [] action.action_type = "move" ->
                             Description("move", " of ", action.source.name)
                       [] action.action_type = "delete" ->
                             Description("delete", " of ", action.source.name)
                       [] action.action_type = "mkdir" ->
                             Description("mkdir", " ", action.source.name)
                       [] action.action_type = "rename" ->
                             Description("rename", " of ", action.source.name)
                       [] OTHER -> "Unknown action"]

\* UndoManager.cleanup: rmtree(backup_dir, ignore_errors=True)
cleanup(f, io) ==
    IF exists(f, backup_dir) THEN rmtree(f, backup_dir, io.io1).fs ELSE f

\* ------------------------------------------------------- FileOperations

\* A method body without its try: what the call raised reaches the caller.
Uncaught(r) == [ok |-> r.ok, fs |-> r.fs, raised |-> ~r.ok]

\* try: <call>; return True / except Exception: return False
Caught(r) == [ok |-> r.ok, fs |-> r.fs, raised |-> FALSE]

\* FileOperations.copy_file
copy_file(f, src, dst, io) ==
    Caught(IF is_dir(f, src) THEN copytree(f, src, dst, TRUE, io.io3)
                             ELSE copy2(f, src, dst, io.io3))

\* FileOperations.move_file
move_file(f, src, dst, io) == Caught(move(f, src, dst, io.io3))

\* FileOperations.delete_file
delete_file(f, path, io) ==
    Caught(IF is_dir(f, path) THEN rmtree(f, path, io.io3) ELSE unlink(f, path, io.io3))

\* FileOperations.create_directory
create_directory(f, path, io) == Caught(mkdir(f, path, io.io3))

\* rename_file whose dst is not taken relative to src.parent
rename_file_elsewhere(f, src, new_name, io) ==
    Caught(rename(f, src, UserPath(OtherDir(src.area), new_name), io.io3))

\* FileOperations.rename_file: dst = src.parent / new_name
rename_file(f, src, new_name, io) ==
    Caught(rename(f, src, UserPath(src.area, new_name), io.io3))

\* Optional[dict] = None
NoInfo == [name |-> "", size |-> 0, is_dir |-> FALSE]

\* FileOperations.get_file_info: path.stat() raises for a path that does not
\* exist; the size of a file stands for its content.
get_file_info(f, path, io) ==
    LET stat == IF ~io.io3 \/ ~exists(f, path) THEN Raise(f) ELSE Done(f)
        r == Caught(stat)
    IN [info |-> IF r.ok THEN [name |-> path.name, size |-> f[path].data,
                               is_dir |-> is_dir(f, path)]
                         ELSE NoInfo,
        raised |-> r.raised]

\* ---------------------------------------------------------------- state

VARIABLES
    fs,        \* the filesystem: Paths -> node
    history,   \* UndoManager.history
    pc,        \* "idle", "confirm" (a batch delete's dialog is open), "exit", "crashed"
    flow,      \* the closure of _delete_multiple_items
    ops,       \* number of handlers that changed fs or history so far
    last,      \* the last handler run and what its calls returned
    recorded,  \* with cfg.log: the actions given to _add_action and not undone
    cfg,       \* what a behaviour covers: OS refusals, the ghost records, its length
    panel      \* the active FilePanel: current_path and selected_files

vars == <<fs, history, pc, flow, ops, last, recorded, cfg, panel>>

\* The filesystem the application is started on, after UndoManager.__init__
\* created backup_dir.
InitFs ==
    [p \in Paths |->
        IF p = backup_dir THEN Dir(NoKids)
        ELSE IF p = UserPath("L", "a") THEN File(1)
        ELSE IF p = UserPath("R", "a") THEN File(2)
        ELSE IF p = UserPath("L", "b") THEN Dir([n \in Names |-> IF n = "a" THEN 2 ELSE 0])
        ELSE IF p = UserPath("R", "b") THEN File(1)
        ELSE Absent]

\* _delete_multiple_items: items, deleted_count, failed_count, delete_all,
\* and the index of the item whose dialog is open.  Kept beside them: the
\* number of items answered "no" so far (skipped) and the indexes
\* delete_next was called with for an item, in call order (visited).
NoFlow == [items |-> <<>>, index |-> 0, deleted_count |-> 0, failed_count |-> 0,
           delete_all |-> FALSE, skipped |-> 0, visited |-> <<>>]

\* One call of an UndoManager or FileOperations method, as a handler made it.
Called(op, path, ok) == [op |-> op, path |-> path, ok |-> ok]

\* action_copy's and action_move's items and counters; none for the other
\* handlers.
Tally(items, success_count, failed_count) ==
    [items |-> items, success_count |-> success_count, failed_count |-> failed_count]
NoTally == Tally(<<>>, 0, 0)

\* What undo() keeps of the handler before it: none.
NoPrev == [op |-> "none", ok |-> FALSE, raised |-> FALSE, pre |-> Absent, dpre |-> Absent]

\* What the last handler did.  ok: what its FileOperations call or undo()
\* returned; rec: what record_delete returned; raised: a record_* call
\* raised; msg: undo()'s message, and the name given to action_rename; item:
\* the item action_rename was asked to rename; pre: the item the handler
\* copied, moved, renamed or deleted last, as it was when the handler began;
\* dpre: what was at its destination then (for action_mkdir, at the path of
\* the new directory); act: the action undo() popped;
\* prev: for action_undo, the handler that ran before it; tally: the items
\* and the counters of action_copy and action_move; done: the closure of the
\* batch delete that the handler brought to its completion step;
\* calls: with cfg.calls, the calls the handler made, in order.
Last(op, ok, rec, raised, msg, pre, calls) ==
    [op |-> op, ok |-> ok, rec |-> rec, raised |-> raised, msg |-> msg, pre |-> pre,
     act |-> NoAction, dpre |-> Absent, prev |-> NoPrev, item |-> NoPath,
     tally |-> NoTally, done |-> NoFlow,
     calls |-> IF cfg.calls THEN calls ELSE <<>>]
\* A handler that changed neither the history nor the filesystem leaves no
\* trace: it is a stuttering step.
Traced(h, f, l) == IF h = history /\ f = fs /\ ~cfg.calls THEN last ELSE l

\* FilePanel.current_path: the directory of the left or of the right panel,
\* their parent, or the drive list.
THIS_PC == "This PC"
Root == "/"
\* FilePanel.__init__: selected_files = set(); the active panel starts on the
\* left directory.
NoSelection == [current_path |-> "L", selected_files |-> {}]

Config(faults, log, calls, depth) ==
    [faults |-> faults, log |-> log, calls |-> calls, depth |-> depth]

InitWith(c) ==
    /\ fs = InitFs
    /\ history = <<>>
    /\ pc = "idle"
    /\ flow = NoFlow
    /\ ops = 0
    /\ last = [op |-> "init", ok |-> TRUE, rec |-> TRUE, raised |-> FALSE, msg |-> "",
               pre |-> Absent, act |-> NoAction, dpre |-> Absent, prev |-> NoPrev,
               item |-> NoPath, tally |-> NoTally, done |-> NoFlow,
               calls |-> <<>>]
    /\ recorded = [log |-> <<>>, undone |-> FALSE, evicted |-> FALSE]
    /\ cfg = c
    /\ panel = NoSelection

Init == InitWith(Config(TRUE, TRUE, FALSE, MaxOps))

\* The OS refusals a handler may meet, by the calls it makes.
IOsNow(kinds) == IF cfg.faults THEN {io \in IOs : io = AllOk \/ \E k \in kinds : ~io[k]}
                 ELSE {AllOk}

\* A handler that changed the filesystem or the history, or recorded an
\* action, counts.
Counted(h, f, acts) ==
    IF h # history \/ f # fs \/ (cfg.log /\ acts # <<>>) THEN ops + 1 ELSE ops

\* The ghost log after _add_action was given acts, and after undo().
Logged(acts) ==
    IF ~cfg.log \/ acts = <<>> THEN recorded
    ELSE [recorded EXCEPT !.log = @ \o acts,
                          !.evicted = @ \/ Len(recorded.log) + Len(acts) > MaxHistory]
Unlogged ==
    IF ~cfg.log THEN recorded
    ELSE [recorded EXCEPT !.log = pop(@), !.undone = TRUE]

\* ------------------------------------------------------------- handlers

\* Path(inactive_panel.current_path) / item.name
Across(src) == UserPath(OtherDir(src.area), src.name)

\* The result of a handler's loop over items.
Loop(h, f, succ, fail, raised, rep, calls, acts) ==
    [history |-> h, fs |-> f, success_count |-> succ, failed_count |-> fail,
     raised |-> raised, rep |-> rep, calls |-> calls, acts |-> acts]

\* action_copy's loop body, over the items from position i on.
RECURSIVE copy_items(_, _, _, _, _, _)
copy_items(h, f, items, i, io, acc) ==
    IF i > Len(items) THEN Loop(h, f, acc.success_count, acc.failed_count, FALSE, TRUE,
                                acc.calls, acc.acts)
    ELSE LET item_path == items[i]
             dst == Across(item_path)
             c == copy_file(f, item_path, dst, io)
         IN IF c.ok
            THEN LET a == record_copy(h, c.fs, item_path, dst, io)
                     calls == acc.calls \o <<Called("copy_file", item_path, TRUE),
                                              Called("record_copy", item_path, ~a.raised)>>
                     acts == Append(acc.acts, UndoAction("copy", item_path, dst, NoPath))
                 IN IF a.raised
                    THEN Loop(a.history, a.fs, acc.success_count, acc.failed_count, TRUE, TRUE,
                              calls, acts)
                    ELSE copy_items(a.history, a.fs, items, i + 1, io,
                                    [acc EXCEPT !.success_count = @ + 1, !.calls = calls,
                                                !.acts = acts])
            ELSE copy_items(h, f, items, i + 1, io,
                            [acc EXCEPT !.failed_count = @ + 1,
                                        !.calls = Append(@, Called("copy_file", item_path, FALSE))])

\* action_move's loop body, over the items from position i on.
RECURSIVE move_items(_, _, _, _, _, _)
move_items(h, f, items, i, io, acc) ==
    IF i > Len(items) THEN Loop(h, f, acc.success_count, acc.failed_count, FALSE, acc.rep,
                                acc.calls, acc.acts)
    ELSE LET item_path == items[i]
             dst == Across(item_path)
             m == move_file(f, item_path, dst, io)
             rep == acc.rep /\ MoveRepresentable(f, item_path, dst)
         IN IF m.ok
            THEN LET a == record_move(h, m.fs, item_path, dst, io)
                     calls == acc.calls \o <<Called("move_file", item_path, TRUE),
                                              Called("record_move", item_path, ~a.raised)>>
                     acts == Append(acc.acts, UndoAction("move", item_path, dst, NoPath))
                 IN IF a.raised
                    THEN Loop(a.history, a.fs, acc.success_count, acc.failed_count, TRUE, rep,
                              calls, acts)
                    ELSE move_items(a.history, a.fs, items, i + 1, io,
                                    [acc EXCEPT !.success_count = @ + 1, !.calls = calls,
                                                !.acts = acts, !.rep = rep])
            ELSE move_items(h, f, items, i + 1, io,
                            [acc EXCEPT !.failed_count = @ + 1, !.rep = rep,
                                        !.calls = Append(@, Called("move_file", item_path, FALSE))])

Acc0 == [success_count |-> 0, failed_count |-> 0, rep |-> TRUE, calls |-> <<>>, acts |-> <<>>]

\* The entries of a panel's directory, and what the handlers may be given:
\* the focused item (a batch of one) or get_selected_items(), the selected
\* paths of the active panel's directory in the order the set gives them.
Entries(d) == {UserPath(d, n) : n \in Names}
Focused == {<<p>> : p \in UserPaths}
Selections(d) ==
    {<<p>> : p \in Entries(d)}
        \cup {s \in {<<p, q>> : p, q \in Entries(d)} : s[1] # s[2]}

AfterHandler(raised) == IF raised THEN "crashed" ELSE "idle"

\* MoCommander.action_copy: the selected items, else the focused item.
ActionCopy(items, io) ==
    /\ pc = "idle" /\ ops < cfg.depth
    /\ LET r == copy_items(history, fs, items, 1, io, Acc0) IN
       /\ history' = r.history
       /\ fs' = r.fs
       /\ pc' = AfterHandler(r.raised)
       /\ last' = Traced(history', fs',
                         [Last("action_copy", r.success_count > 0, TRUE, r.raised, "",
                               fs[items[Len(items)]], r.calls)
                            EXCEPT !.dpre = fs[Across(items[Len(items)])],
                                   !.tally = Tally(items, r.success_count, r.failed_count)])
       /\ recorded' = Logged(r.acts)
       /\ ops' = Counted(r.history, r.fs, r.acts)
    /\ UNCHANGED <<flow, cfg, panel>>

\* MoCommander.action_move
ActionMove(items, io) ==
    /\ pc = "idle" /\ ops < cfg.depth
    /\ LET r == move_items(history, fs, items, 1, io, Acc0) IN
       /\ r.rep
       /\ history' = r.history
       /\ fs' = r.fs
       /\ pc' = AfterHandler(r.raised)
       /\ last' = Traced(history', fs',
                         [Last("action_move", r.success_count > 0, TRUE, r.raised, "",
                               fs[items[Len(items)]], r.calls)
                            EXCEPT !.dpre = fs[Across(items[Len(items)])],
                                   !.tally = Tally(items, r.success_count, r.failed_count)])
       /\ recorded' = Logged(r.acts)
       /\ ops' = Counted(r.history, r.fs, r.acts)
    /\ UNCHANGED <<flow, cfg, panel>>

\* action_mkdir recording the directory whatever create_directory returned
ActionMkdir_unchecked(new_dir, io) ==
    /\ pc = "idle" /\ ops < cfg.depth
    /\ LET c == create_directory(fs, new_dir, io)
           a == record_mkdir(history, c.fs, new_dir, io)
       IN /\ history' = a.history
          /\ fs' = a.fs
          /\ pc' = AfterHandler(a.raised)
          /\ last' = Traced(history', fs',
                            [Last("action_mkdir", c.ok, TRUE, a.raised, "", Absent,
                                  <<Called("create_directory", new_dir, c.ok),
                                    Called("record_mkdir", new_dir, ~a.raised)>>)
                               EXCEPT !.dpre = fs[new_dir]])
          /\ recorded' = Logged(<<UndoAction("mkdir", new_dir, NoPath, NoPath)>>)
          /\ ops' = Counted(a.history, a.fs, <<UndoAction("mkdir", new_dir, NoPath, NoPath)>>)
    /\ UNCHANGED <<flow, cfg, panel>>

\* MoCommander.action_mkdir and its dialog's check_result(dirname)
ActionMkdir(new_dir, io) ==
    /\ pc = "idle" /\ ops < cfg.depth
    /\ LET c == create_directory(fs, new_dir, io)
           a == record_mkdir(history, c.fs, new_dir, io)
       IN IF c.ok
          THEN /\ history' = a.history
               /\ fs' = a.fs
               /\ pc' = AfterHandler(a.raised)
               /\ last' = Traced(history', fs',
                                 [Last("action_mkdir", TRUE, TRUE, a.raised, "", Absent,
                                       <<Called("create_directory", new_dir, TRUE),
                                         Called("record_mkdir", new_dir, ~a.raised)>>)
                                    EXCEPT !.dpre = fs[new_dir]])
               /\ recorded' = Logged(<<UndoAction("mkdir", new_dir, NoPath, NoPath)>>)
               /\ ops' = Counted(a.history, a.fs, <<UndoAction("mkdir", new_dir, NoPath, NoPath)>>)
          ELSE /\ last' = Traced(history, fs, Last("action_mkdir", FALSE, TRUE, FALSE, "", Absent,
                               <<Called("create_directory", new_dir, FALSE)>>))
               /\ UNCHANGED <<history, fs, pc, recorded, ops>>
    /\ UNCHANGED <<flow, cfg, panel>>

\* What InputDialog hands to check_result besides a name: the empty string,
\* and None when the dialog was dismissed.
EmptyName == ""
NoName == "<None>"
\* Python's truth value of a str | None
Truthy(s) == s # EmptyName /\ s # NoName

\* action_rename whose check_result does not compare new_name to the
\* item's name
ActionRename_unchecked(item, new_name, io) ==
    /\ pc = "idle" /\ ops < cfg.depth
    /\ IF Truthy(new_name)
       THEN LET old_path == item
                new_path == UserPath(old_path.area, new_name)
                c == rename_file(fs, old_path, new_name, io)
                a == record_rename(history, c.fs, old_path, new_path, io)
            IN IF c.ok
               THEN /\ history' = a.history
                    /\ fs' = a.fs
                    /\ pc' = AfterHandler(a.raised)
                    /\ last' = Traced(history', fs',
                                      [Last("action_rename", TRUE, TRUE, a.raised, new_name, fs[old_path],
                                            <<Called("rename_file", old_path, TRUE),
                                              Called("record_rename", old_path, ~a.raised)>>)
                                         EXCEPT !.dpre = fs[new_path], !.item = item])
                    /\ recorded' = Logged(<<UndoAction("rename", old_path, new_path, NoPath)>>)
                    /\ ops' = Counted(a.history, a.fs, <<UndoAction("rename", old_path, new_path, NoPath)>>)
               ELSE /\ last' = Traced(history, fs,
                                      [Last("action_rename", FALSE, TRUE, FALSE, new_name, Absent,
                                            <<Called("rename_file", old_path, FALSE)>>)
                                         EXCEPT !.item = item])
                    /\ UNCHANGED <<history, fs, pc, recorded, ops>>
       ELSE /\ last' = Traced(history, fs,
                              [Last("action_rename", FALSE, TRUE, FALSE, new_name, Absent, <<>>)
                                 EXCEPT !.item = item])
            /\ UNCHANGED <<history, fs, pc, recorded, ops>>
    /\ UNCHANGED <<flow, cfg, panel>>

\* MoCommander.action_rename and its dialog's check_result(new_name)
ActionRename(item, new_name, io) ==
    /\ pc = "idle" /\ ops < cfg.depth
    /\ IF Truthy(new_name) /\ new_name # item.name
       THEN LET old_path == item
                new_path == UserPath(old_path.area, new_name)
                c == rename_file(fs, old_path, new_name, io)
                a == record_rename(history, c.fs, old_path, new_path, io)
            IN IF c.ok
               THEN /\ history' = a.history
                    /\ fs' = a.fs
                    /\ pc' = AfterHandler(a.raised)
                    /\ last' = Traced(history', fs',
                                      [Last("action_rename", TRUE, TRUE, a.raised, new_name, fs[old_path],
                                            <<Called("rename_file", old_path, TRUE),
                                              Called("record_rename", old_path, ~a.raised)>>)
                                         EXCEPT !.dpre = fs[new_path], !.item = item])
                    /\ recorded' = Logged(<<UndoAction("rename", old_path, new_path, NoPath)>>)
                    /\ ops' = Counted(a.history, a.fs, <<UndoAction("rename", old_path, new_path, NoPath)>>)
               ELSE /\ last' = Traced(history, fs,
                                      [Last("action_rename", FALSE, TRUE, FALSE, new_name, Absent,
                                            <<Called("rename_file", old_path, FALSE)>>)
                                         EXCEPT !.item = item])
                    /\ UNCHANGED <<history, fs, pc, recorded, ops>>
       ELSE /\ last' = Traced(history, fs,
                              [Last("action_rename", FALSE, TRUE, FALSE, new_name, Absent, <<>>)
                                 EXCEPT !.item = item])
            /\ UNCHANGED <<history, fs, pc, recorded, ops>>
    /\ UNCHANGED <<flow, cfg, panel>>

\* delete_item with the two calls in the other order.
delete_item_swapped(h, f, item_path, io) ==
    LET d == delete_file(f, item_path, io)
        rd == record_delete(h, d.fs, item_path, io)
    IN [history |-> rd.history, fs |-> rd.fs, recorded |-> rd.ret, deleted |-> d.ok,
        calls |-> <<Called("delete_file", item_path, d.ok),
                    Called("record_delete", item_path, rd.ret)>>,
        acts |-> IF rd.added
                 THEN <<UndoAction("delete", item_path, NoPath, backup_name(h, item_path))>>
                 ELSE <<>>]

\* The two calls every delete flow makes for a confirmed item
\* (_delete_single_item lines 942-943, _delete_multiple_items lines 991-996
\* and 1003-1007): record_delete, then delete_file whatever it returned.
delete_item(h, f, item_path, io) ==
    LET rd == record_delete(h, f, item_path, io)
        d == delete_file(rd.fs, item_path, io)
    IN [history |-> rd.history, fs |-> d.fs, recorded |-> rd.ret, deleted |-> d.ok,
        calls |-> <<Called("record_delete", item_path, rd.ret),
                    Called("delete_file", item_path, d.ok)>>,
        acts |-> IF rd.added
                 THEN <<UndoAction("delete", item_path, NoPath, backup_name(h, item_path))>>
                 ELSE <<>>]

\* _delete_single_item whose handle_confirm does not look at the answer
DeleteSingle_unconfirmed(item, result, io) ==
    /\ pc = "idle" /\ ops < cfg.depth
    /\ LET r == delete_item(history, fs, item, io) IN
       /\ history' = r.history
       /\ fs' = r.fs
       /\ last' = Traced(history', fs', Last("delete_single", r.deleted, r.recorded, FALSE, result, fs[item],
                       r.calls))
       /\ recorded' = Logged(r.acts)
       /\ ops' = Counted(r.history, r.fs, r.acts)
    /\ UNCHANGED <<pc, flow, cfg, panel>>

\* _delete_single_item and its dialog's handle_confirm(result)
DeleteSingle(item, result, io) ==
    /\ pc = "idle" /\ ops < cfg.depth
    /\ IF result = "yes"
       THEN LET r == delete_item(history, fs, item, io) IN
            /\ history' = r.history
            /\ fs' = r.fs
            /\ last' = Traced(history', fs', Last("delete_single", r.deleted, r.recorded, FALSE, "yes", fs[item],
                            r.calls))
            /\ recorded' = Logged(r.acts)
            /\ ops' = Counted(r.history, r.fs, r.acts)
       ELSE /\ last' = Traced(history, fs, Last("delete_single", FALSE, FALSE, FALSE, "no", Absent, <<>>))
            /\ UNCHANGED <<history, fs, recorded, ops>>
    /\ UNCHANGED <<pc, flow, cfg, panel>>

\* The one element of a set of one element: a value computed once.
Only(S) == CHOOSE x \in S : TRUE

\* delete_next(index): past the last item the flow is done; under delete_all
\* the item is deleted without a dialog and the next one follows; else the
\* item's dialog opens and the handler returns.
RECURSIVE delete_next(_, _, _, _, _, _)
delete_next(h, f, fl, index, io, acc) ==
    IF index > Len(fl.items)
    THEN [history |-> h, fs |-> f, flow |-> NoFlow, pc |-> "idle", done |-> fl,
          calls |-> acc.calls, acts |-> acc.acts, pre |-> acc.pre, rec |-> acc.rec,
          ok |-> acc.ok]
    ELSE IF fl.delete_all
    THEN LET item_path == fl.items[index]
         IN Only({delete_next(r.history, r.fs,
                              IF r.deleted
                              THEN [fl EXCEPT !.deleted_count = @ + 1,
                                              !.visited = Append(@, index)]
                              ELSE [fl EXCEPT !.failed_count = @ + 1,
                                              !.visited = Append(@, index)],
                              index + 1, io,
                              [calls |-> acc.calls \o r.calls, acts |-> acc.acts \o r.acts,
                               pre |-> f[item_path], rec |-> r.recorded, ok |-> r.deleted])
                    : r \in {delete_item(h, f, item_path, io)}})
    ELSE [history |-> h, fs |-> f,
          flow |-> [fl EXCEPT !.index = index, !.visited = Append(@, index)],
          pc |-> "confirm",
          done |-> NoFlow, calls |-> acc.calls, acts |-> acc.acts, pre |-> acc.pre,
          rec |-> acc.rec, ok |-> acc.ok]

NoAcc == [calls |-> <<>>, acts |-> <<>>, pre |-> Absent, rec |-> FALSE, ok |-> FALSE]

\* action_delete with selected items: _delete_multiple_items up to the
\* first dialog.
DeleteMultiple(items) ==
    /\ pc = "idle" /\ ops < cfg.depth
    /\ LET r == delete_next(history, fs, [NoFlow EXCEPT !.items = items], 1, AllOk, NoAcc)
       IN /\ pc' = r.pc
          /\ flow' = r.flow
    /\ last' = Traced(history, fs, Last("delete_multiple", FALSE, FALSE, FALSE, "", Absent, <<>>))
    /\ UNCHANGED <<history, fs, recorded, ops, cfg, panel>>

\* handle_confirm that counts a failed delete_file in neither counter
HandleConfirm_uncounted(result, io) ==
    /\ pc = "confirm"
    /\ \E r \in
         {IF result = "no"
          THEN delete_next(history, fs, [flow EXCEPT !.skipped = @ + 1], flow.index + 1, io,
                           NoAcc)
          ELSE LET item_path == flow.items[flow.index]
                   fl == IF result = "all" THEN [flow EXCEPT !.delete_all = TRUE]
                                            ELSE flow
               IN Only({delete_next(d.history, d.fs,
                                    IF d.deleted THEN [fl EXCEPT !.deleted_count = @ + 1]
                                                 ELSE fl,
                                    flow.index + 1, io,
                                    [calls |-> d.calls, acts |-> d.acts, pre |-> fs[item_path],
                                     rec |-> d.recorded, ok |-> d.deleted])
                          : d \in {delete_item(history, fs, item_path, io)}})} :
          /\ history' = r.history
          /\ fs' = r.fs
          /\ pc' = r.pc
          /\ flow' = r.flow
          /\ last' = Traced(history', fs',
                            [Last("handle_confirm", r.ok, r.rec, FALSE, result, r.pre, r.calls)
                               EXCEPT !.done = r.done])
          /\ recorded' = Logged(r.acts)
          /\ ops' = Counted(r.history, r.fs, r.acts)
    /\ UNCHANGED <<cfg, panel>>

\* _delete_multiple_items.delete_next.handle_confirm(result)
HandleConfirm(result, io) ==
    /\ pc = "confirm"
    /\ \E r \in
         {IF result = "no"
          THEN delete_next(history, fs, [flow EXCEPT !.skipped = @ + 1], flow.index + 1, io,
                           NoAcc)
          ELSE LET item_path == flow.items[flow.index]
                   fl == IF result = "all" THEN [flow EXCEPT !.delete_all = TRUE]
                                            ELSE flow
               IN Only({delete_next(d.history, d.fs,
                                    IF d.deleted THEN [fl EXCEPT !.deleted_count = @ + 1]
                                                 ELSE [fl EXCEPT !.failed_count = @ + 1],
                                    flow.index + 1, io,
                                    [calls |-> d.calls, acts |-> d.acts, pre |-> fs[item_path],
                                     rec |-> d.recorded, ok |-> d.deleted])
                          : d \in {delete_item(history, fs, item_path, io)}})} :
          /\ history' = r.history
          /\ fs' = r.fs
          /\ pc' = r.pc
          /\ flow' = r.flow
          /\ last' = Traced(history', fs',
                            [Last("handle_confirm", r.ok, r.rec, FALSE, result, r.pre, r.calls)
                               EXCEPT !.done = r.done])
          /\ recorded' = Logged(r.acts)
          /\ ops' = Counted(r.history, r.fs, r.acts)
    /\ UNCHANGED <<cfg, panel>>

\* action_undo taken as still bound after the application has unmounted
ActionUndo_unmounted(io) ==
    /\ pc \in {"idle", "exit"} /\ ops < cfg.depth
    /\ IF ~can_undo(history)
       THEN /\ last' = Traced(history, fs, Last("action_undo", FALSE, FALSE, FALSE, "Nothing to undo", Absent, <<>>))
            /\ UNCHANGED <<history, fs, recorded, ops>>
       ELSE /\ UndoRepresentable(history, fs)
            /\ LET u == undo(history, fs, io)
                   r == u.r
               IN
               /\ history' = r.history
               /\ fs' = r.fs
               /\ last' = [Last("action_undo", r.ok, FALSE, FALSE, r.msg, Absent,
                                <<Called("undo", u.action.source, r.ok)>>)
                              EXCEPT !.act = u.action,
                                     !.prev = [op |-> last.op, ok |-> last.ok,
                                               raised |-> last.raised, pre |-> last.pre,
                                               dpre |-> last.dpre]]
               /\ recorded' = Unlogged
               /\ ops' = ops + 1
    /\ UNCHANGED <<pc, flow, cfg, panel>>

\* MoCommander.action_undo
ActionUndo(io) ==
    /\ pc = "idle" /\ ops < cfg.depth
    /\ IF ~can_undo(history)
       THEN /\ last' = Traced(history, fs, Last("action_undo", FALSE, FALSE, FALSE, "Nothing to undo", Absent, <<>>))
            /\ UNCHANGED <<history, fs, recorded, ops>>
       ELSE /\ UndoRepresentable(history, fs)
            /\ LET u == undo(history, fs, io)
                   r == u.r
               IN
               /\ history' = r.history
               /\ fs' = r.fs
               /\ last' = [Last("action_undo", r.ok, FALSE, FALSE, r.msg, Absent,
                                <<Called("undo", u.action.source, r.ok)>>)
                              EXCEPT !.act = u.action,
                                     !.prev = [op |-> last.op, ok |-> last.ok,
                                               raised |-> last.raised, pre |-> last.pre,
                                               dpre |-> last.dpre]]
               /\ recorded' = Unlogged
               /\ ops' = ops + 1
    /\ UNCHANGED <<pc, flow, cfg, panel>>

\* MoCommander.on_unmount: the application exits.
OnUnmount(io) ==
    /\ pc = "idle"
    /\ fs' = cleanup(fs, io)
    /\ pc' = "exit"
    /\ last' = Last("on_unmount", TRUE, FALSE, FALSE, "", Absent,
                     <<Called("cleanup", NoPath, TRUE)>>)
    /\ UNCHANGED <<history, flow, ops, recorded, cfg, panel>>

\* The single-item handlers: the focused item of either panel.
Next ==
    \/ \E items \in Focused, io \in IOsNow({"io2", "io3"}) :
            exists(fs, items[1]) /\ ActionCopy(items, io)
    \/ \E items \in Focused, io \in IOsNow({"io2", "io3"}) :
            exists(fs, items[1]) /\ ActionMove(items, io)
    \/ \E p \in UserPaths, io \in IOsNow({"io2", "io3"}) : ActionMkdir(p, io)
    \/ \E p \in UserPaths, n \in Names \cup {EmptyName, NoName}, io \in IOsNow({"io2", "io3"}) :
            exists(fs, p) /\ ActionRename(p, n, io)
    \/ \E p \in UserPaths, res \in {"yes", "no"}, io \in IOsNow({"io1", "io2", "io3"}) :
            exists(fs, p) /\ DeleteSingle(p, res, io)
    \/ \E io \in IOsNow({"io1", "io2"}) : ActionUndo(io)
    \/ \E io \in IOsNow({"io1"}) : OnUnmount(io)

Spec == Init /\ [][Next]_vars

\* The same handlers on a filesystem that refuses nothing, one handler
\* further.
InitNoFault == InitWith(Config(FALSE, TRUE, FALSE, MaxOpsNoFault))
SpecNoFault == InitNoFault /\ [][Next]_vars

\* The same again without the ghost log, one handler further still.
InitDeep == InitWith(Config(FALSE, FALSE, FALSE, MaxOpsDeep))
SpecDeep == InitDeep /\ [][Next]_vars

\* The delete flows: the handlers above and action_delete with a selection,
\* its dialogs answered one by one, with the calls of each handler kept.
NextFlow ==
    \/ Next
    \/ \E d \in UserDirs : \E items \in Selections(d) :
            (\A i \in 1..Len(items) : exists(fs, items[i])) /\ DeleteMultiple(items)
    \/ \E result \in {"yes", "no", "all"}, io \in IOsNow({"io1", "io2", "io3"}) :
            HandleConfirm(result, io)

InitFlow == InitWith(Config(TRUE, FALSE, TRUE, MaxOpsFlow))
SpecFlow == InitFlow /\ [][NextFlow]_vars

\* Deleting and undoing only, with action_mkdir to fill the history, on a
\* filesystem that refuses nothing: deep enough for two Delete entries to
\* outlive an eviction and be undone.
NextDelete ==
    \/ \E p \in UserPaths : ActionMkdir(p, AllOk)
    \/ \E p \in UserPaths : exists(fs, p) /\ DeleteSingle(p, "yes", AllOk)
    \/ ActionUndo(AllOk)

InitDelete == InitWith(Config(FALSE, FALSE, FALSE, MaxOpsDelete))
SpecDelete == InitDelete /\ [][NextDelete]_vars

\* The manager queried between handlers: get_last_action_description() and
\* can_undo() called on their own.
GetLastActionDescription ==
    /\ pc = "idle"
    /\ \E r \in {get_last_action_description(history)} :
          /\ history' = r.history
          /\ last' = Last("get_last_action_description", TRUE, FALSE, FALSE, r.ret, Absent,
                          <<Called("get_last_action_description", NoPath, TRUE)>>)
    /\ UNCHANGED <<fs, pc, flow, ops, recorded, cfg, panel>>

CanUndo ==
    /\ pc = "idle"
    /\ last' = Last("can_undo", can_undo(history), FALSE, FALSE, "", Absent,
                    <<Called("can_undo", NoPath, can_undo(history))>>)
    /\ UNCHANGED <<fs, history, pc, flow, ops, recorded, cfg, panel>>

NextQueries ==
    \/ Next
    \/ GetLastActionDescription
    \/ CanUndo

InitQueries == InitWith(Config(FALSE, FALSE, FALSE, MaxOpsQueries))
SpecQueries == InitQueries /\ [][NextQueries]_vars

\* action_copy and action_move with a selection in the active panel, among
\* the single-item handlers, with the calls of each handler kept.
NextBatch ==
    \/ Next
    \/ \E d \in UserDirs : \E items \in Selections(d), io \in IOsNow({"io2", "io3"}) :
            (\A i \in 1..Len(items) : exists(fs, items[i])) /\ ActionCopy(items, io)
    \/ \E d \in UserDirs : \E items \in Selections(d), io \in IOsNow({"io2", "io3"}) :
            (\A i \in 1..Len(items) : exists(fs, items[i])) /\ ActionMove(items, io)

InitBatch == InitWith(Config(TRUE, FALSE, TRUE, MaxOpsBatch))
SpecBatch == InitBatch /\ [][NextBatch]_vars

\* The batch delete flow on its own, with action_undo between batches, the
\* calls of each handler kept.  Every dialog that is open gets an answer.
NextDeleteFlow ==
    \/ \E d \in UserDirs : \E items \in Selections(d) :
            (\A i \in 1..Len(items) : exists(fs, items[i])) /\ DeleteMultiple(items)
    \/ \E result \in {"yes", "no", "all"}, io \in IOsNow({"io1", "io2", "io3"}) :
            HandleConfirm(result, io)
    \/ \E io \in IOsNow({"io1", "io2"}) : ActionUndo(io)

DialogAnswered ==
    \E result \in {"yes", "no", "all"}, io \in IOsNow({"io1", "io2", "io3"}) :
        HandleConfirm(result, io)

InitDeleteFlow == InitWith(Config(TRUE, FALSE, TRUE, MaxOpsDeleteFlow))
SpecDeleteFlow == InitDeleteFlow /\ [][NextDeleteFlow]_vars /\ WF_vars(DialogAnswered)

\* A full-history round trip: on a filesystem that refuses nothing, started
\* with any of the items missing and an empty backup storage, at most
\* max_history handlers whose target (the copy's and the move's
\* destination, the new directory, the new name) is not there yet, and from
\* the first action_undo on nothing but action_undo.  cfg.start keeps the
\* filesystem the application was started on.
StartFs ==
    {[p \in Paths |-> IF p \in gone THEN Absent ELSE InitFs[p]] : gone \in SUBSET UserPaths}

Operating == ~recorded.undone /\ Len(history) < MaxHistory

NextRoundTrip ==
    \/ \E items \in Focused :
            /\ Operating /\ exists(fs, items[1]) /\ ~exists(fs, Across(items[1]))
            /\ ActionCopy(items, AllOk)
    \/ \E items \in Focused :
            /\ Operating /\ exists(fs, items[1]) /\ ~exists(fs, Across(items[1]))
            /\ ActionMove(items, AllOk)
    \/ \E p \in UserPaths : Operating /\ ~exists(fs, p) /\ ActionMkdir(p, AllOk)
    \/ \E p \in UserPaths, n \in Names :
            /\ Operating /\ exists(fs, p) /\ ~exists(fs, UserPath(p.area, n))
            /\ ActionRename(p, n, AllOk)
    \/ \E p \in UserPaths : Operating /\ exists(fs, p) /\ DeleteSingle(p, "yes", AllOk)
    \/ ActionUndo(AllOk)

InitRoundTrip ==
    \E f \in StartFs :
        /\ fs = f
        /\ history = <<>>
        /\ pc = "idle"
        /\ flow = NoFlow
        /\ ops = 0
        /\ last = [op |-> "init", ok |-> TRUE, rec |-> TRUE, raised |-> FALSE, msg |-> "",
                   pre |-> Absent, act |-> NoAction, dpre |-> Absent, prev |-> NoPrev,
                   item |-> NoPath, tally |-> NoTally, done |-> NoFlow,
                   calls |-> <<>>]
        /\ recorded = [log |-> <<>>, undone |-> FALSE, evicted |-> FALSE]
        /\ cfg = [faults |-> FALSE, log |-> TRUE, calls |-> FALSE,
                  depth |-> MaxOpsRoundTrip, start |-> f]
        /\ panel = NoSelection

SpecRoundTrip == InitRoundTrip /\ [][NextRoundTrip]_vars

\* The record_* methods called on their own, with the paths the call sites
\* give them: an item and its place in the other panel, a new directory, an
\* item and another name, an item to delete.
CallRecord(op, path, h, f, raised, ok) ==
    /\ pc = "idle" /\ ops < cfg.depth
    /\ history' = h
    /\ fs' = f
    /\ pc' = AfterHandler(raised)
    /\ last' = Last(op, ok, ok, raised, "", fs[path], <<Called(op, path, ok)>>)
    /\ ops' = ops + 1
    /\ UNCHANGED <<flow, recorded, cfg, panel>>

CallRecordCopy(src, io) ==
    \E r \in {record_copy(history, fs, src, Across(src), io)} :
        CallRecord("record_copy", src, r.history, r.fs, r.raised, ~r.raised)
CallRecordMove(src, io) ==
    \E r \in {record_move(history, fs, src, Across(src), io)} :
        CallRecord("record_move", src, r.history, r.fs, r.raised, ~r.raised)
CallRecordMkdir(path, io) ==
    \E r \in {record_mkdir(history, fs, path, io)} :
        CallRecord("record_mkdir", path, r.history, r.fs, r.raised, ~r.raised)
CallRecordRename(old, n, io) ==
    \E r \in {record_rename(history, fs, old, UserPath(old.area, n), io)} :
        CallRecord("record_rename", old, r.history, r.fs, r.raised, ~r.raised)
CallRecordDelete(path, io) ==
    \E r \in {record_delete(history, fs, path, io)} :
        CallRecord("record_delete", path, r.history, r.fs, FALSE, r.ret)

NextRecord ==
    \/ \E src \in UserPaths, io \in IOsNow({"io2"}) : CallRecordCopy(src, io)
    \/ \E src \in UserPaths, io \in IOsNow({"io2"}) : CallRecordMove(src, io)
    \/ \E path \in UserPaths, io \in IOsNow({"io2"}) : CallRecordMkdir(path, io)
    \/ \E old \in UserPaths, n \in Names, io \in IOsNow({"io2"}) :
            n # old.name /\ CallRecordRename(old, n, io)
    \/ \E path \in UserPaths, io \in IOsNow({"io1", "io2"}) : CallRecordDelete(path, io)

InitRecord == InitWith(Config(TRUE, FALSE, TRUE, MaxOpsRecord))
SpecRecord == InitRecord /\ [][NextRecord]_vars

\* The active panel.  A FileListItem of its list: filename, file_path and
\* is_dir; a directory of the root is named by RootEntry.
RootEntry(d) == [area |-> Root, idx |-> 0, name |-> d]
Item(filename, file_path, isd) ==
    [filename |-> filename, file_path |-> file_path, is_dir |-> isd]

\* refresh_file_list: the ".." item first, then the entries of current_path;
\* the drive list holds no FileListItem.
ListItems(f, current_path) ==
    IF current_path = THIS_PC THEN {}
    ELSE IF current_path = Root
    THEN {Item("..", RootEntry(THIS_PC), TRUE)}
            \cup {Item(d, RootEntry(d), TRUE) : d \in UserDirs}
    ELSE {Item("..", RootEntry(Root), TRUE)}
            \cup {Item(p.name, p, is_dir(f, p)) : p \in {q \in Entries(current_path) : exists(f, q)}}

\* The entries of the directory a panel shows, ".." left out.
Shown(f, current_path) ==
    {i.file_path : i \in {j \in ListItems(f, current_path) : j.filename # ".."}}

\* A step of the panel alone: the handlers' state stays.
PanelOnly == UNCHANGED <<fs, history, pc, flow, ops, last, recorded, cfg>>

\* FilePanel.toggle_selection on the focused item
ToggleSelection(item) ==
    /\ pc = "idle"
    /\ item \in ListItems(fs, panel.current_path)
    /\ IF item.filename # ".."
       THEN IF item.file_path \in panel.selected_files
            THEN panel' = [panel EXCEPT !.selected_files = @ \ {item.file_path}]
            ELSE panel' = [panel EXCEPT !.selected_files = @ \cup {item.file_path}]
       ELSE UNCHANGED panel
    /\ PanelOnly

\* FilePanel.on_list_view_selected on a directory item, and
\* watch_current_path: the list is refreshed.  The drive list leads to the
\* root; the directories below the left and the right one are not entered.
Enter(item) ==
    /\ pc = "idle"
    /\ \/ /\ panel.current_path = THIS_PC /\ item = Item(Root, RootEntry(Root), TRUE)
          /\ panel' = [panel EXCEPT !.current_path = Root]
       \/ /\ item \in ListItems(fs, panel.current_path)
          /\ item.is_dir /\ item.file_path.area = Root
          /\ panel' = [panel EXCEPT !.current_path = item.file_path.name]
    /\ PanelOnly

\* FilePanel.navigate_up, and watch_current_path
NavigateUp ==
    /\ pc = "idle"
    /\ panel.current_path # THIS_PC
    /\ panel' = [panel EXCEPT !.current_path = IF @ = Root THEN THIS_PC ELSE Root]
    /\ PanelOnly

\* FilePanel.get_selected_items: the selected paths in the order the set
\* gives them.
get_selected_items(selected_files) ==
    {items \in UNION {[1..n -> selected_files] : n \in 0..Cardinality(selected_files)} :
        /\ Len(items) = Cardinality(selected_files)
        /\ \A i, j \in 1..Len(items) : i # j => items[i] # items[j]}

\* MoCommander.action_copy from the active panel to the right directory (the
\* inactive panel's): the selected items, after which the selection is
\* cleared, else the focused item.  Only items of the left directory can be
\* followed to the right one.
PanelCopy(item, io) ==
    /\ pc = "idle" /\ ops < cfg.depth
    /\ \E items \in IF panel.selected_files # {}
                     THEN get_selected_items(panel.selected_files)
                     ELSE {<<item.file_path>>} :
          /\ \A i \in 1..Len(items) : items[i] \in Entries("L")
          /\ panel.selected_files = {}
                => item \in ListItems(fs, panel.current_path) /\ item.filename # ".."
          /\ \E r \in {copy_items(history, fs, items, 1, io, Acc0)} :
                /\ history' = r.history
                /\ fs' = r.fs
                /\ pc' = AfterHandler(r.raised)
                /\ last' = [Last("action_copy", r.success_count > 0, TRUE, r.raised, "",
                                  fs[items[Len(items)]], r.calls)
                               EXCEPT !.dpre = fs[Across(items[Len(items)])],
                                      !.tally = Tally(items, r.success_count, r.failed_count)]
                /\ recorded' = Logged(r.acts)
                /\ ops' = ops + 1
                /\ panel' = IF panel.selected_files # {} /\ ~r.raised
                            THEN [panel EXCEPT !.selected_files = {}]
                            ELSE panel
    /\ UNCHANGED <<flow, cfg>>

NextPanel ==
    \/ \E d \in UserDirs \cup {Root, THIS_PC}, p \in UserPaths \cup {RootEntry(x) : x \in UserDirs \cup {Root, THIS_PC}},
          n \in Names \cup UserDirs \cup {".."}, isd \in BOOLEAN :
            ToggleSelection(Item(n, p, isd))
    \/ \E x \in UserDirs \cup {Root, THIS_PC} : \E n \in {x, ".."} :
            Enter(Item(n, RootEntry(x), TRUE))
    \/ NavigateUp
    \/ \E p \in UserPaths, isd \in BOOLEAN, io \in IOsNow({"io2", "io3"}) :
            PanelCopy(Item(p.name, p, isd), io)

InitPanel == InitWith(Config(FALSE, FALSE, FALSE, MaxOpsPanel))
SpecPanel == InitPanel /\ [][NextPanel]_vars

\* The FileOperations methods called on their own, on any two user paths.
CallDone(op, path, r) ==
    /\ pc = "idle" /\ ops < cfg.depth
    /\ fs' = r.fs
    /\ pc' = AfterHandler(r.raised)
    /\ last' = Last(op, r.ok, FALSE, r.raised, "", fs[path], <<Called(op, path, r.ok)>>)
    /\ ops' = ops + 1
    /\ UNCHANGED <<history, flow, recorded, cfg, panel>>

CallCopyFile(src, dst, io) == CallDone("copy_file", src, copy_file(fs, src, dst, io))
CallMoveFile(src, dst, io) ==
    MoveRepresentable(fs, src, dst) /\ CallDone("move_file", src, move_file(fs, src, dst, io))
CallDeleteFile(path, io) == CallDone("delete_file", path, delete_file(fs, path, io))
CallCreateDirectory(path, io) ==
    CallDone("create_directory", path, create_directory(fs, path, io))
CallRenameFile(src, new_name, io) ==
    CallDone("rename_file", src, rename_file(fs, src, new_name, io))
CallGetFileInfo(path, io) ==
    \E g \in {get_file_info(fs, path, io)} :
        CallDone("get_file_info", path, [ok |-> g.info # NoInfo, fs |-> fs, raised |-> g.raised])

NextFileOps ==
    \/ \E src, dst \in UserPaths, io \in IOsNow({"io3"}) : CallCopyFile(src, dst, io)
    \/ \E src, dst \in UserPaths, io \in IOsNow({"io3"}) : CallMoveFile(src, dst, io)
    \/ \E path \in UserPaths, io \in IOsNow({"io3"}) : CallDeleteFile(path, io)
    \/ \E path \in UserPaths, io \in IOsNow({"io3"}) : CallCreateDirectory(path, io)
    \/ \E src \in UserPaths, n \in Names, io \in IOsNow({"io3"}) : CallRenameFile(src, n, io)
    \/ \E path \in UserPaths, io \in IOsNow({"io3"}) : CallGetFileInfo(path, io)

InitFileOps == InitWith(Config(TRUE, FALSE, TRUE, MaxOpsFileOps))
SpecFileOps == InitFileOps /\ [][NextFileOps]_vars

\* ---------------------------------------------------------------- claims

\* The last n entries of a sequence.
LastN(s, n) == SubSeq(s, Len(s) - n + 1, Len(s))

\* A step of action_undo that called undo().
UndoStep == can_undo(history) /\ \E io \in IOs : ActionUndo(io)

\* C1: after every UndoManager operation, in any sequence from an empty
\* history, the history holds at most max_history entries.
C1_HistoryBounded == Len(history) <= MaxHistory

\* C1's case: the history is full and a recording has evicted an entry.
C1_Witness == recorded.evicted /\ Len(history) = MaxHistory /\ last.op # "action_undo"

\* C2: after N > max_history recorded actions with no undo among them, the
\* history has exactly max_history entries, the most recently recorded ones
\* in recording order.
C2_KeepsMostRecent ==
    ~recorded.undone /\ Len(recorded.log) > MaxHistory
        => /\ Len(history) = MaxHistory
           /\ history = LastN(recorded.log, MaxHistory)

\* C2's case: one more action than the bound was recorded, of more than one
\* type.
C2_Witness ==
    /\ ~recorded.undone
    /\ Len(recorded.log) = MaxHistory + 1
    /\ history = LastN(recorded.log, MaxHistory)
    /\ recorded.log[1].action_type # recorded.log[MaxHistory + 1].action_type

\* C3: undo is last-in first-out.  While nothing was evicted, every undo()
\* reverses the most recently recorded action not yet undone and leaves the
\* ones recorded before it; on the empty history undo() fails with "Nothing
\* to undo" and changes nothing.
C3_UndoIsLifo ==
    /\ [](history = <<>> =>
            \A io \in IOs :
                undo(history, fs, io) =
                    [r |-> UndoResult(<<>>, fs, FALSE, "Nothing to undo"), action |-> NoAction])
    /\ [][UndoStep /\ ~recorded.evicted =>
            /\ last'.act = recorded.log[Len(recorded.log)]
            /\ history' = pop(recorded.log)
            /\ recorded'.log = history']_vars

\* C3's case: two actions were recorded and two undo() calls have emptied
\* the history, the second reversing the first action recorded.
C3_Witness ==
    /\ ops = 4 /\ ~recorded.evicted /\ history = <<>>
    /\ last.op = "action_undo" /\ last.act # NoAction

\* C4: undo() on a non-empty history removes exactly the last entry and
\* leaves the others as they were, in order, whether the reversal succeeded
\* or failed.
C4_UndoPopsTail ==
    [][UndoStep => /\ Len(history') = Len(history) - 1
                   /\ \A i \in 1..Len(history') : history'[i] = history[i]]_vars

\* C4's case: an undo() failed on a history of two entries and left the
\* first one.
C4_Witness ==
    /\ last.op = "action_undo" /\ ~last.ok /\ last.act # NoAction
    /\ Len(history) = 1 /\ history[1] # last.act

\* The backups in the backup storage, and the Delete entries of the history.
Backups == {b \in BackupPaths : exists(fs, b)}
DeleteEntries == {i \in 1..Len(history) : history[i].action_type = "delete"}

\* C5: when record_delete(path) returned true, delete_file(path) removed the
\* item and undo() is called next, the item is back at path as it was before
\* the delete and its backup is gone from the backup storage.
C5_DeleteUndoRoundTrip ==
    [][last.op = "delete_single" /\ last.rec /\ last.ok /\ UndoStep =>
            LET action == history[Len(history)] IN
            /\ fs'[action.source] = last.pre
            /\ ~exists(fs', action.backup_path)]_vars

\* C6: before cleanup, every backup in the backup storage is the backup_path
\* of a Delete entry of the history.
C6_NoOrphanBackup ==
    pc # "exit" => \A b \in Backups : \E i \in DeleteEntries : history[i].backup_path = b

\* C7: after recordings that exceeded max_history, the backup storage holds
\* at most as many entries as the history holds Delete entries.
C7_EvictionNeverLeaks ==
    ~recorded.undone /\ Len(recorded.log) > MaxHistory
        => Cardinality(Backups) <= Cardinality(DeleteEntries)

\* C8: two Delete entries of the history never have the same backup_path,
\* and the backup path record_delete would write for an item is not the
\* backup_path of an entry of the history.
C8_BackupNamesDistinct ==
    /\ \A i, j \in DeleteEntries :
          i # j => history[i].backup_path # history[j].backup_path
    /\ \A p \in UserPaths, i \in DeleteEntries :
          exists(fs, p) => history[i].backup_path # backup_name(history, p)

\* C9: when record_delete(path) returns true, one Delete entry for path was
\* appended and its backup exists; when it returns false the history is as
\* it was before the call.
C9_RecordDeleteResult ==
    [][\A p \in UserPaths, io \in IOs :
            DeleteSingle(p, "yes", io) =>
                LET rd == record_delete(history, fs, p, io)
                    entry == UndoAction("delete", p, NoPath, backup_name(history, p))
                IN /\ rd.ret => /\ history' = LastN(Append(history, entry),
                                                     IF Len(history) < MaxHistory
                                                     THEN Len(history) + 1 ELSE MaxHistory)
                                /\ exists(rd.fs, entry.backup_path)
                   /\ ~rd.ret => history' = history]_vars

\* C10: in every delete flow (single item, batch item answered yes or all,
\* batch item under apply-to-all) record_delete(item) is called right before
\* delete_file(item) for the same item, with no call between the two.
C10_RecordBeforeDelete ==
    last.op \in {"delete_single", "handle_confirm"} =>
        \A i \in 1..Len(last.calls) :
            /\ last.calls[i].op = "delete_file" =>
                  /\ i > 1
                  /\ last.calls[i - 1].op = "record_delete"
                  /\ last.calls[i - 1].path = last.calls[i].path
            /\ last.calls[i].op = "record_delete" =>
                  /\ i < Len(last.calls)
                  /\ last.calls[i + 1].op = "delete_file"

\* C10's case: a batch of two items was deleted under apply-to-all.
C10_Witness ==
    /\ last.op = "handle_confirm" /\ last.msg = "all"
    /\ Len(last.calls) = 4 /\ pc = "idle"
    /\ last.calls[1].ok /\ last.calls[2].ok

\* The number of recorded actions that were evicted: the ones of the ghost
\* log, which holds every action recorded and not undone, that the history
\* no longer holds.
Evicted == Len(recorded.log) - Len(history)

\* C11: a recorded action leaves the history once, popped by undo() or
\* evicted as the oldest entry, and never comes back: the history is always
\* the most recent actions recorded and not undone, undo() removes the last
\* one and evicts nothing, and the evicted actions stay evicted.
C11_ActionLifecycle ==
    /\ [](Evicted >= 0 /\ history = LastN(recorded.log, Len(history)))
    /\ [][/\ Evicted' >= Evicted
          /\ SubSeq(recorded'.log, 1, Evicted) = SubSeq(recorded.log, 1, Evicted)
          /\ UndoStep => /\ Evicted' = Evicted
                         /\ history' = pop(history)
                         /\ recorded'.log = pop(recorded.log)]_vars

\* C11's case: one action was evicted, then another one was undone.
C11_Witness ==
    /\ recorded.evicted /\ recorded.undone /\ last.op = "action_undo"
    /\ Evicted = 1 /\ Len(history) = MaxHistory - 1

\* The entry undo() pops next.
Newest == history[Len(history)]

\* C12: undo() of a Mkdir entry whose directory is not empty fails with the
\* "not empty" message and leaves the directory and all it holds.
C12_MkdirUndoNonEmpty ==
    [][UndoStep /\ Newest.action_type = "mkdir"
            /\ is_dir(fs, Newest.source) /\ ~IsEmptyDir(fs, Newest.source)
        => /\ ~last'.ok /\ last'.msg = "not empty"
           /\ fs' = fs]_vars

\* C12's case: the undo() of a Mkdir entry failed on a directory that holds
\* a file.
C12_Witness ==
    /\ last.op = "action_undo" /\ ~last.ok /\ last.msg = "not empty"
    /\ last.act.action_type = "mkdir"
    /\ is_dir(fs, last.act.source) /\ ~IsEmptyDir(fs, last.act.source)

\* C13: when move_file(src, dst) succeeded, record_move(src, dst) followed
\* and undo() is called next, the item is back at src as it was and nothing
\* is at dst.
C13_MoveUndoRoundTrip ==
    [][last.op = "action_move" /\ last.ok /\ ~last.raised /\ UndoStep
            /\ Newest.action_type = "move"
        => /\ fs'[Newest.source] = last.pre
           /\ ~exists(fs', Newest.destination)]_vars

\* C14: copy-then-undo round trip.  Given that nothing exists at dst,
\* copy_file(src, dst) succeeding, followed by record_copy(src, dst) and
\* undo(), leaves nothing at dst and leaves src and its content untouched.
C14_CopyUndoRoundTrip ==
    [][/\ last.op = "action_copy" /\ last.ok /\ ~last.raised /\ last.dpre = Absent
       /\ UndoStep /\ Newest.action_type = "copy"
       => /\ ~exists(fs', Newest.destination)
          /\ fs[Newest.source] = last.pre
          /\ fs'[Newest.source] = last.pre
          /\ \A p \in DOMAIN fs : p # Newest.destination => fs'[p] = fs[p]]_vars

\* An undo has just reversed a copy whose destination did not exist before.
C14_Witness ==
    /\ last.op = "action_undo" /\ last.ok /\ last.act.action_type = "copy"
    /\ last.prev.op = "action_copy" /\ last.prev.ok /\ last.prev.dpre = Absent
    /\ ~exists(fs, last.act.destination)
    /\ fs[last.act.source] = last.prev.pre /\ last.prev.pre # Absent

\* A handler step that renamed an item and recorded it.
RenameStep ==
    /\ \E p \in UserPaths, n \in Names, io \in IOs : exists(fs, p) /\ ActionRename(p, n, io)
    /\ last'.op = "action_rename" /\ last'.ok /\ ~last'.raised

\* C15: rename-then-undo round trip.  rename_file(old, new_name) succeeding,
\* followed by record_rename(old, old.parent/new_name) and undo(), restores
\* the item under its original name and leaves nothing under the new name;
\* the destination recorded by the call site is the path that rename_file
\* actually renamed to.
C15_RenameUndoRoundTrip ==
    /\ [][RenameStep
          => /\ Newest'.action_type = "rename"
             /\ last'.pre # Absent /\ fs[Newest'.source] = last'.pre
             /\ fs'[Newest'.destination] = last'.pre
             /\ ~exists(fs', Newest'.source)
             /\ \A p \in UserPaths \ {Newest'.source, Newest'.destination} :
                   fs'[p] = fs[p]]_vars
    /\ [][/\ last.op = "action_rename" /\ last.ok /\ ~last.raised
          /\ UndoStep /\ Newest.action_type = "rename"
          => /\ fs'[Newest.source] = last.pre
             /\ ~exists(fs', Newest.destination)]_vars

\* An undo has just reversed a rename: the item is back under its old name.
C15_Witness ==
    /\ last.op = "action_undo" /\ last.ok /\ last.act.action_type = "rename"
    /\ last.prev.op = "action_rename" /\ last.prev.ok
    /\ last.prev.pre # Absent /\ fs[last.act.source] = last.prev.pre
    /\ ~exists(fs, last.act.destination)

\* A step of one of the four handlers that record after the operation; with
\* cfg.calls every handler leaves its own trace in last.
RecordingStep ==
    cfg.calls /\ last'.op \in {"action_copy", "action_move", "action_mkdir", "action_rename"}

\* The record_* call that belongs to a FileOperations call.
RecordOf(op) ==
    CASE op = "copy_file" -> "record_copy"
      [] op = "move_file" -> "record_move"
      [] op = "create_directory" -> "record_mkdir"
      [] op = "rename_file" -> "record_rename"
      [] OTHER -> "none"

FileOpCalls == {"copy_file", "move_file", "create_directory", "rename_file"}
RecordCalls == {RecordOf(op) : op \in FileOpCalls}

\* C16: a Copy, Move, MakeDirectory or Rename entry is appended to history
\* only when the corresponding FileOperations call returned success, and
\* immediately after it; a failed copy_file, move_file, create_directory or
\* rename_file leaves the history unchanged.
C16_RecordAfterSuccess ==
    [][RecordingStep
       => LET cs == last'.calls
          IN /\ \A i \in 1..Len(cs) :
                   cs[i].op \in RecordCalls
                      => /\ i > 1 /\ cs[i-1].ok
                         /\ cs[i].op = RecordOf(cs[i-1].op)
                         /\ cs[i].path = cs[i-1].path
             /\ \A i \in 1..Len(cs) :
                   cs[i].op \in FileOpCalls /\ cs[i].ok
                      => i < Len(cs) /\ cs[i+1].op = RecordOf(cs[i].op)
             /\ (\A i \in 1..Len(cs) : cs[i].op \in FileOpCalls => ~cs[i].ok)
                   => history' = history
             /\ history' # history
                   => /\ \E i \in 1..Len(cs) : cs[i].op \in FileOpCalls /\ cs[i].ok
                      /\ RecordOf(cs[1].op) = "record_" \o Newest'.action_type]_vars

\* A handler's FileOperations call has failed, and another one's has
\* succeeded and was recorded.
C16_Witness ==
    /\ Len(last.calls) = 1 /\ last.calls[1].op \in FileOpCalls /\ ~last.calls[1].ok
    /\ history # <<>>
    /\ Newest.action_type \in {"copy", "move", "mkdir", "rename"}

\* The rename dialog answered with the item's own name, with the empty
\* string, or dismissed; with cfg.calls every handler leaves its own trace
\* in last.
RenameToNothing ==
    /\ cfg.calls /\ last'.op = "action_rename"
    /\ last'.msg \in {last'.item.name, EmptyName, NoName}

\* C17: a rename whose new name equals the current name (or is empty or
\* cancelled) performs no rename_file call and records no Rename entry: the
\* history and the filesystem are unchanged.
C17_RenameSameName ==
    [][RenameToNothing
       => /\ history' = history /\ fs' = fs
          /\ last'.calls = <<>>]_vars

\* A rename to the item's own name has been asked for, and nothing was
\* called.
C17_Witness ==
    /\ last.op = "action_rename" /\ last.calls = <<>>
    /\ last.msg \in Names /\ last.msg = last.item.name
    /\ history # <<>>

\* C18: when record_delete returns false for a confirmed item, delete_file
\* is still invoked for that item, and afterwards the history contains no
\* entry for that deletion (the delete cannot be undone).
C18_DeleteUnrecorded ==
    [][cfg.calls /\ last'.op \in {"delete_single", "handle_confirm"}
       => LET cs == last'.calls
          IN /\ \A i \in 1..Len(cs) :
                   cs[i].op = "record_delete" /\ ~cs[i].ok
                      => /\ i < Len(cs)
                         /\ cs[i+1].op = "delete_file" /\ cs[i+1].path = cs[i].path
             /\ (cs # <<>> /\ \A i \in 1..Len(cs) : cs[i].op = "record_delete" => ~cs[i].ok)
                   => history' = history]_vars

\* The filesystem call undo() makes to reverse action raises.
InverseRaises(f, action, io) ==
    CASE action.action_type = "copy" ->
            /\ exists(f, action.destination)
            /\ ~(IF is_dir(f, action.destination)
                 THEN rmtree(f, action.destination, io.io1)
                 ELSE unlink(f, action.destination, io.io1)).ok
      [] action.action_type = "move" ->
            /\ exists(f, action.destination)
            /\ ~move(f, action.destination, action.source, io.io1).ok
      [] action.action_type = "delete" ->
            /\ action.backup_path # NoPath /\ exists(f, action.backup_path)
            /\ LET isd == is_dir(f, action.backup_path)
                   c == IF isd THEN copytree(f, action.backup_path, action.source, FALSE, io.io1)
                               ELSE copy2(f, action.backup_path, action.source, io.io1)
               IN ~c.ok \/ ~(IF isd THEN rmtree(c.fs, action.backup_path, io.io2)
                                    ELSE unlink(c.fs, action.backup_path, io.io2)).ok
      [] action.action_type = "mkdir" ->
            /\ is_dir(f, action.source)
            /\ ~rmdir(f, action.source, io.io1).ok
      [] action.action_type = "rename" ->
            /\ exists(f, action.destination)
            /\ ~rename(f, action.destination, action.source, io.io1).ok
      [] OTHER -> FALSE

\* The messages undo() returns.
UndoMessages ==
    {"Nothing to undo", "Undid copy", "Undid move", "Undid delete", "Undid mkdir",
     "Undid rename", "no longer exists", "backup not found", "not empty", "Undo failed",
     "Unknown action type"}

\* C19: undo() never propagates an error: any failure of the inverse
\* filesystem operation, for every action kind, is returned as
\* (false, "Undo failed: <detail>"), and undo always returns a (bool, string)
\* pair.  The directory that a Mkdir entry names and that is no longer empty
\* is left aside: its own message is what C12 states.
C19_UndoFailureReported ==
    [][\A io \in IOs :
          can_undo(history) /\ ActionUndo(io)
             => /\ pc' = "idle"
                /\ last'.ok \in BOOLEAN /\ last'.msg \in UndoMessages
                /\ (/\ InverseRaises(fs, Newest, io)
                    /\ ~(Newest.action_type = "mkdir" /\ ~IsEmptyDir(fs, Newest.source)))
                      => ~last'.ok /\ last'.msg = "Undo failed"]_vars

\* C20: every UndoManager interface method (record_copy, record_move,
\* record_delete, record_mkdir, record_rename, undo, can_undo,
\* get_last_action_description, cleanup) completes by returning a plain
\* value and never raises, in every reachable state and for every outcome of
\* the underlying filesystem calls, the backup removal performed on eviction
\* included.
C20_NeverRaises == ~last.raised /\ pc # "crashed"

\* The call a FileOperations method makes raises.
CopyRaises(f, src, dst, io) ==
    ~(IF is_dir(f, src) THEN copytree(f, src, dst, TRUE, io.io3)
                        ELSE copy2(f, src, dst, io.io3)).ok
DeleteRaises(f, path, io) ==
    ~(IF is_dir(f, path) THEN rmtree(f, path, io.io3) ELSE unlink(f, path, io.io3)).ok

\* C21: every FileOperations primitive (copy_file, move_file, delete_file,
\* create_directory, rename_file, get_file_info) converts any underlying
\* filesystem error into a failure result (false, or absent for
\* get_file_info) and never raises to the caller.
C21_FileOpsNeverRaise ==
    /\ last.op \in FileOpCalls \cup {"delete_file", "get_file_info"}
          => ~last.raised /\ pc = "idle"
    /\ \A io \in {AllOk, [AllOk EXCEPT !.io3 = FALSE]} : \A p \in UserPaths :
          /\ \A q \in UserPaths :
                /\ \E c \in {copy_file(fs, p, q, io)} :
                      ~c.raised /\ (CopyRaises(fs, p, q, io) => ~c.ok)
                /\ \E m \in {move_file(fs, p, q, io)} :
                      ~m.raised /\ (~move(fs, p, q, io.io3).ok => ~m.ok)
          /\ \E d \in {delete_file(fs, p, io)} :
                ~d.raised /\ (DeleteRaises(fs, p, io) => ~d.ok)
          /\ \E c \in {create_directory(fs, p, io)} :
                ~c.raised /\ (~mkdir(fs, p, io.io3).ok => ~c.ok)
          /\ \A n \in Names :
                \E r \in {rename_file(fs, p, n, io)} :
                   ~r.raised /\ (~rename(fs, p, UserPath(p.area, n), io.io3).ok => ~r.ok)
          /\ \E g \in {get_file_info(fs, p, io)} :
                ~g.raised /\ (~io.io3 \/ ~exists(fs, p) => g.info = NoInfo)

\* A method has failed, an underlying call having raised, and has returned
\* to its caller.
C21_Witness ==
    /\ last.op \in FileOpCalls \cup {"delete_file", "get_file_info"}
    /\ ~last.ok /\ ~last.raised /\ pc = "idle" /\ ops = MaxOpsFileOps

\* C22: undo of a Move or Rename action whose destination no longer exists
\* returns failure with a "no longer exists" message and performs no
\* filesystem change (no other recovery is attempted); if the destination
\* exists it is moved or renamed back to source.
C22_MoveRenameUndoMissing ==
    [][UndoStep /\ Newest.action_type \in {"move", "rename"}
       => IF ~exists(fs, Newest.destination)
          THEN ~last'.ok /\ last'.msg = "no longer exists" /\ fs' = fs
          ELSE \/ /\ last'.ok /\ last'.msg = "Undid " \o Newest.action_type
                  /\ ~exists(fs', Newest.destination)
                  /\ \/ fs'[Newest.source] = fs[Newest.destination]
                     \/ /\ Newest.action_type = "move" /\ is_dir(fs, Newest.source)
                        /\ fs'[Newest.source].kids[Newest.destination.name]
                              = fs[Newest.destination].data
                  /\ \A p \in Paths \ {Newest.source, Newest.destination} : fs'[p] = fs[p]
               \/ ~last'.ok /\ last'.msg = "Undo failed" /\ fs' = fs]_vars

\* An undo has just found the destination of a move or of a rename gone.
C22_Witness ==
    /\ last.op = "action_undo" /\ ~last.ok /\ last.msg = "no longer exists"
    /\ last.act.action_type \in {"move", "rename"}
    /\ ~exists(fs, last.act.destination)

\* C23: undo of a Delete action whose backup is missing from the backup
\* storage returns failure with "backup not found" and changes nothing at
\* the original path.
C23_DeleteUndoNoBackup ==
    [][UndoStep /\ Newest.action_type = "delete" /\ ~exists(fs, Newest.backup_path)
       => /\ ~last'.ok /\ last'.msg = "backup not found"
          /\ fs' = fs /\ history' = pop(history)]_vars

\* An undo has just found the backup of a Delete action missing.
C23_Witness ==
    /\ last.op = "action_undo" /\ ~last.ok /\ last.msg = "backup not found"
    /\ last.act.action_type = "delete" /\ ~exists(fs, last.act.backup_path)

\* What a description of the action says: its kind, and the name of the
\* item it would bring back or take away.
Describes(text, action) ==
    /\ action.action_type \in ActionTypes
    /\ text = "Undo " \o action.action_type
                \o (IF action.action_type = "mkdir" THEN " " ELSE " of ")
                \o (IF action.action_type = "copy" THEN action.destination.name
                                                   ELSE action.source.name)

\* C24: get_last_action_description() changes neither the history nor the
\* filesystem; it returns "Nothing to undo" iff the history is empty, and
\* otherwise describes the tail entry, i.e. exactly the action that the next
\* undo() call would pop.
C24_DescriptionPreviewsUndo ==
    /\ []((get_last_action_description(history).ret = "Nothing to undo") <=> history = <<>>)
    /\ [](history # <<>> /\ UndoRepresentable(history, fs)
            => Describes(get_last_action_description(history).ret,
                         undo(history, fs, AllOk).action))
    /\ [][last'.op = "get_last_action_description"
            => /\ history' = history /\ fs' = fs
               /\ last'.msg = get_last_action_description(history).ret]_vars
    /\ [][last.op = "get_last_action_description" /\ history # <<>> /\ UndoStep
            => Describes(last.msg, last'.act)]_vars

\* An undo has just popped the action that the description before it
\* announced, and has left an older, different one.
C24_Witness ==
    /\ last.op = "action_undo" /\ last.prev.op = "get_last_action_description"
    /\ last.act.action_type \in ActionTypes
    /\ history # <<>> /\ history[1] # last.act

\* C25: cleanup() leaves the backup storage directory absent (or empty) and
\* leaves the in-memory history unchanged, so can_undo() after cleanup
\* returns the same value as before cleanup.
C25_CleanupEmptiesStorage ==
    [][pc = "idle" /\ pc' = "exit" /\ last'.op = "on_unmount"
       => /\ ~exists(fs', backup_dir) \/ \A p \in BackupPaths : ~exists(fs', p)
          /\ history' = history
          /\ can_undo(history') = can_undo(history)]_vars

Appended ==
    \/ last.op \in {"action_copy", "action_move", "action_mkdir", "action_rename"} /\ last.ok
    \/ last.op = "delete_single" /\ last.msg = "yes" /\ last.rec

\* C27: when appending an action makes the history exceed max_history,
\* exactly one entry, the oldest (head), is removed, and if that entry has a
\* backup the backup is deleted from the backup storage; no other entry's
\* backup is removed by that eviction.
C27_EvictionRemovesOnlyOldest ==
    [][Len(history) = MaxHistory /\ Appended'
       => /\ Len(history') = MaxHistory
          /\ SubSeq(history', 1, MaxHistory - 1) = Tail(history)
          /\ Head(history).backup_path # NoPath
                => ~exists(fs', Head(history).backup_path)
          /\ \A i \in 1..Len(history') :
                /\ history'[i].backup_path # NoPath
                /\ i = Len(history') \/ exists(fs, history'[i].backup_path)
                => exists(fs', history'[i].backup_path)]_vars

\* The copy_file and move_file calls among a handler's calls.
IsTransfer(c) == c.op \in {"copy_file", "move_file"}
IsGoodTransfer(c) == IsTransfer(c) /\ c.ok
IsRecord(c) == c.op \in {"record_copy", "record_move"}
CallPath(c) == c.path
Paths_of(cs) == [i \in 1..Len(cs) |-> CallPath(cs[i])]

\* C28: in a batch copy or move over n selected items, every item is
\* attempted exactly once regardless of earlier failures, already-completed
\* items are not rolled back when a later item fails, success_count +
\* failed_count = n at the end, and exactly the successful items were
\* recorded (one record each, in processing order).
C28_BatchTally ==
    [][cfg.calls /\ last'.op \in {"action_copy", "action_move"} /\ Len(last'.tally.items) > 1
       => LET t == last'.tally
              cs == last'.calls
              good == SelectSeq(cs, IsGoodTransfer)
              kind == IF last'.op = "action_copy" THEN "copy" ELSE "move"
          IN /\ Paths_of(SelectSeq(cs, IsTransfer)) = t.items
             /\ t.success_count + t.failed_count = Len(t.items)
             /\ t.success_count = Len(good)
             /\ Paths_of(SelectSeq(cs, IsRecord)) = Paths_of(good)
             /\ \A i \in 1..Len(good) :
                   IF kind = "copy" THEN exists(fs', Across(good[i].path))
                                    ELSE ~exists(fs', good[i].path)
             /\ LET k == IF Len(good) < MaxHistory THEN Len(good) ELSE MaxHistory
                IN LastN(history', k)
                     = LastN([i \in 1..Len(good) |->
                                 UndoAction(kind, good[i].path, Across(good[i].path), NoPath)], k)
             /\ Len(history') = IF Len(history) + Len(good) < MaxHistory
                                THEN Len(history) + Len(good) ELSE MaxHistory]_vars

\* C29: can_undo() returns true iff the history is non-empty, in every
\* reachable state, and does not change any state.
C29_CanUndoIffNonEmpty ==
    /\ [](can_undo(history) <=> history # <<>>)
    /\ [][last'.op = "can_undo"
            => /\ last'.ok = (history # <<>>)
               /\ history' = history /\ fs' = fs /\ pc' = pc /\ ops' = ops]_vars

\* can_undo() has answered false after handlers had filled and emptied the
\* history.
C29_Witness ==
    last.op = "can_undo" /\ ~last.ok /\ history = <<>> /\ ops > 1

\* C30: before cleanup, and with no changes made to the backup storage by
\* anything other than the UndoManager, every Delete entry currently in
\* history has its backup present in the backup storage with the content of
\* the item it was recorded for, for any sequence of record_* and undo
\* operations including ones that evict entries.  The content is compared
\* for the entry that the last handler recorded.
C30_DeleteEntriesBackedUp ==
    pc # "exit"
       => /\ \A i \in 1..Len(history) :
                history[i].action_type = "delete"
                   => history[i].backup_path # NoPath /\ exists(fs, history[i].backup_path)
          /\ last.op = "delete_single" /\ last.msg = "yes" /\ last.rec
                => /\ history # <<>> /\ Newest.action_type = "delete"
                   /\ fs[Newest.backup_path] = last.pre

\* A step in which undo() popped a Delete action whose backup was present.
UndoOfBackedUpDelete ==
    /\ history # <<>> /\ history' = pop(history)
    /\ Newest.action_type = "delete" /\ exists(fs, Newest.backup_path)
    /\ last'.op = "action_undo" /\ last'.act = Newest

\* C31: during undo of a Delete action the backup is removed only after the
\* copy back to the original path has completed: a backup that undo() removed
\* was copied to the source first and undo() succeeded, and when undo() fails
\* with the source left as it was (the restore copy failed) the backup is
\* still in the backup storage as it was.
C31_BackupOutlivesFailedRestore ==
    [][UndoOfBackedUpDelete
          => /\ fs'[Newest.backup_path] # fs[Newest.backup_path]
                   => /\ last'.ok
                      /\ fs'[Newest.source] = fs[Newest.backup_path]
                      /\ ~exists(fs', Newest.backup_path)
             /\ fs'[Newest.source] # fs[Newest.backup_path]
                   => /\ ~last'.ok
                      /\ fs'[Newest.backup_path] = fs[Newest.backup_path]]_vars

\* undo() of a Delete action failed at the restore copy, and the backup is
\* still there.
C31_Witness ==
    /\ last.op = "action_undo" /\ last.act.action_type = "delete"
    /\ ~last.ok /\ last.msg = "Undo failed"
    /\ exists(fs, last.act.backup_path)
    /\ ~exists(fs, last.act.source)

\* The Delete entries of a history for one item.
DeleteEntriesOf(h, p) ==
    {i \in 1..Len(h) : h[i].action_type = "delete" /\ h[i].source = p}

\* A delete flow called record_delete for item p, got True, and then
\* delete_file for p returned False.
RecordedNotDeleted(calls, p) ==
    \E i \in 1..(Len(calls) - 1) :
        /\ calls[i] = Called("record_delete", p, TRUE)
        /\ calls[i + 1] = Called("delete_file", p, FALSE)

\* C32: in the delete flows a Delete entry remains in history only for an
\* item that was actually deleted: when delete_file fails after
\* record_delete succeeded, the handler leaves no more Delete entries for
\* that item than there were and no backup of its name that was not there.
C32_NoEntryForFailedDelete ==
    [][cfg.calls /\ last'.op \in {"delete_single", "handle_confirm"}
          => \A p \in UserPaths :
                RecordedNotDeleted(last'.calls, p)
                   => /\ Cardinality(DeleteEntriesOf(history', p))
                            <= Cardinality(DeleteEntriesOf(history, p))
                      /\ \A b \in BackupPaths :
                            b.name = p.name => fs'[b] = fs[b]]_vars

\* The items an answer to the open dialog of a batch confirms: the item
\* asked about on "yes", it and every item after it on "all".
Confirmed(fl, result) ==
    IF result = "yes" THEN {fl.items[fl.index]}
    ELSE IF result = "all" THEN {fl.items[j] : j \in fl.index..Len(fl.items)}
    ELSE {}

\* The paths a step's handler passed to record_delete or delete_file, the
\* user paths it changed, and the items it added Delete entries or wrote
\* backups for.
Handled ==
    {last'.calls[i].path : i \in 1..Len(last'.calls)}
        \cup {p \in UserPaths : fs'[p] # fs[p]}
        \cup {history'[i].source : i \in {j \in 1..Len(history') :
                    /\ history'[j].action_type = "delete"
                    /\ \A k \in 1..Len(history) : history[k] # history'[j]}}
BackedUp == {b.name : b \in {c \in BackupPaths : exists(fs', c) /\ fs'[c] # fs[c]}}

\* C33: no item is deleted or backed up without confirmation.  The
\* single-item flow calls nothing and changes nothing unless the answer is
\* "yes"; an answer in the batch flow records, backs up and deletes only the
\* item asked about ("yes") or it and the items after it ("all"), and
\* nothing on "no"; starting a batch deletes nothing and opens the dialog of
\* its first item with the apply-to-all flag off, which is off whenever a
\* dialog is open.
C33_DeleteOnlyConfirmed ==
    [][cfg.calls
          => /\ last'.op = "delete_single" /\ last'.msg # "yes"
                   => last'.calls = <<>> /\ fs' = fs /\ history' = history
             /\ pc = "confirm" /\ last'.op = "handle_confirm"
                   => /\ ~flow.delete_all
                      /\ Handled \subseteq Confirmed(flow, last'.msg)
                      /\ BackedUp \subseteq {p.name : p \in Confirmed(flow, last'.msg)}
             /\ last'.op = "delete_multiple"
                   => /\ fs' = fs /\ history' = history
                      /\ pc' = "confirm" /\ ~flow'.delete_all /\ flow'.index = 1]_vars

\* The first item of a batch was answered "no" and is still there, unrecorded,
\* while the dialog of the second item is open.
C33_Witness ==
    /\ last.op = "handle_confirm" /\ last.msg = "no" /\ last.calls = <<>>
    /\ pc = "confirm" /\ flow.index = 2
    /\ exists(fs, flow.items[1])
    /\ DeleteEntriesOf(history, flow.items[1]) = {}

\* The indexes 1..n in order.
Indexes(n) == [i \in 1..n |-> i]

\* The completion step of a batch delete: delete_next was called past the
\* last item.
Completion == last'.op = "handle_confirm" /\ last'.done # NoFlow

\* The batch whose dialog was open has been brought to its completion step.
Completed == pc = "idle" /\ flow = NoFlow /\ last.op = "handle_confirm" /\ last.done # NoFlow

\* C34: the batch delete flow over n items visits the items in index order,
\* each exactly once, and, every dialog being answered in the end, reaches
\* its completion step, once: the step closes the flow, and there
\* deleted_count + failed_count + (number of items answered "no") = n.
C34_BatchDeleteCompletes ==
    /\ [][/\ pc' = "confirm"
                => /\ flow'.visited = Indexes(flow'.index)
                   /\ flow'.index \in 1..Len(flow'.items)
                   /\ pc = "confirm" => flow'.items = flow.items /\ flow'.index > flow.index
          /\ Completion
                => /\ pc = "confirm" /\ pc' = "idle" /\ flow' = NoFlow
                   /\ last'.done.items = flow.items
                   /\ last'.done.visited = Indexes(Len(flow.items))
                   /\ last'.done.deleted_count + last'.done.failed_count
                         + last'.done.skipped = Len(flow.items)
          /\ pc = "confirm" /\ pc' # "confirm" => Completion]_vars
    /\ (pc = "confirm") ~> Completed

\* A batch of two items has reached its completion step with one item
\* answered "no" and one delete that failed.
C34_Witness ==
    /\ Completed
    /\ Len(last.done.items) = 2
    /\ last.done.skipped = 1 /\ last.done.failed_count = 1

\* A step in which undo() popped a Copy action.
UndoOfCopy ==
    /\ history # <<>> /\ history' = pop(history)
    /\ Newest.action_type = "copy"
    /\ last'.op = "action_undo" /\ last'.act = Newest

\* undo() succeeded on the Copy action: the destination is gone, whatever it
\* held, and nothing else changed (nothing at all when it was gone before).
CopyUndone ==
    /\ last'.ok /\ last'.msg = "Undid copy"
    /\ ~exists(fs', Newest.destination)
    /\ \A p \in Paths \ {Newest.destination} : fs'[p] = fs[p]

\* C35 as stated: undo of a Copy action always returns success: if the
\* destination exists it is removed (recursively for a directory) whatever
\* it now contains, and if the destination no longer exists undo still
\* returns success and changes nothing on the filesystem.
C35_CopyUndoAlwaysSucceeds == [][UndoOfCopy => CopyUndone]_vars

\* C35, amended: undo of a Copy action returns success, with the destination
\* removed whatever it held or nothing changed when it was gone already,
\* unless the OS refuses the removal of an existing destination: then it
\* returns the failure "Undo failed", the destination stays and the action
\* is popped all the same.  It fails in no other case.
C35_CopyUndoSucceedsUnlessRefused ==
    [][UndoOfCopy
          => \/ CopyUndone
             \/ /\ ~last'.ok /\ last'.msg = "Undo failed"
                /\ exists(fs, Newest.destination) /\ fs' = fs
                /\ undo(history, fs, AllOk).r.ok]_vars

\* undo() of a Copy action succeeded although the copy was gone: the item
\* deleted before it, unrecorded, was the copy, every other item being as it
\* was at the start; and nothing is left to undo.
C35_Witness ==
    /\ last.op = "action_undo" /\ last.act.action_type = "copy" /\ last.ok
    /\ last.prev.op = "delete_single" /\ last.prev.ok
    /\ ~exists(fs, last.act.destination)
    /\ \A p \in UserPaths \ {last.act.destination} : fs[p] = InitFs[p]
    /\ history = <<>>

\* A step in which undo() popped the MakeDirectory action that the handler
\* before it recorded for a directory that was there already.
UndoOfMkdirOfExisting ==
    /\ history # <<>> /\ history' = pop(history)
    /\ Newest.action_type = "mkdir"
    /\ last.op = "action_mkdir" /\ last.ok /\ last.dpre.kind = "dir"
    /\ last'.op = "action_undo" /\ last'.act = Newest

\* C36: undo of a MakeDirectory action never removes a directory that
\* already existed before the recorded create-directory operation: a
\* create_directory call on an existing directory is not recorded, or its
\* undo leaves that directory in place.
C36_MkdirUndoKeepsExisting ==
    [][UndoOfMkdirOfExisting => fs'[Newest.source] = fs[Newest.source]]_vars

Changed == {p \in Paths : fs'[p] # fs[p]}

\* C38: recording never touches user data.  record_copy, record_move,
\* record_mkdir and record_rename change only the history and, when they
\* evict, the evicted entry's backup; record_delete leaves the item at the
\* given path, and every other user path, as it was and writes only inside
\* the backup storage.
C38_RecordingKeepsUserData ==
    [][/\ last'.op \in {"record_copy", "record_move", "record_mkdir", "record_rename"}
             => /\ Changed \subseteq
                      (IF Len(history) = MaxHistory THEN {Head(history).backup_path} ELSE {})
                /\ Len(history') = IF Len(history) = MaxHistory THEN MaxHistory
                                                                ELSE Len(history) + 1
       /\ last'.op = "record_delete"
             => /\ \A p \in UserPaths : fs'[p] = fs[p]
                /\ Changed \subseteq BackupPaths \cup {backup_dir}]_vars

\* record_delete has backed a directory up as the third action recorded,
\* the oldest entry evicted, and the user's items are what they were at the
\* start.
C38_Witness ==
    /\ last.op = "record_delete" /\ last.ok /\ last.pre.kind = "dir"
    /\ ops = 3 /\ Len(history) = MaxHistory
    /\ Backups # {}
    /\ \A p \in UserPaths : fs[p] = InitFs[p]

\* C39: in every reachable state of a file panel, every path in its
\* selection is an entry of the panel's current directory and is never the
\* parent entry "..": the selection does not survive navigation to another
\* directory, so that a batch copy acts on items of the directory shown.
C39_SelectionInCurrentDirectory ==
    panel.selected_files \subseteq Shown(fs, panel.current_path)

====
